---- MODULE Spec2Model ----
(***************************************************************************)
(* A model of the claude-run storage core (api/storage.ts), of the change  *)
(* watcher (src/watcher.ts) and of the branch reconstruction of the        *)
(* conversation view (unnamed/part_002).                                    *)
(*                                                                         *)
(* The program runs on one cooperative thread: a step of the model is the  *)
(* code that runs between two suspension points (an await on file I/O, a   *)
(* promise reaction, a timer or watcher callback).                          *)
(*                                                                         *)
(*   Spec         history cache, request coalescer, getSessions,            *)
(*                getProjects, invalidation, the clock                      *)
(*   SpecHistory  the same calls on a history log that also has lines    *)
(*                that are not JSON                                         *)
(*   SpecWatcher  ClaudeWatcher: raw events, debounce timers, stop          *)
(*   SpecStream   a session transcript, its writer, getConversation and     *)
(*                getConversationStream                                     *)
(*   SpecTail     a consumer that chains incremental reads while whole      *)
(*                lines are appended; SpecTailFair adds that the consumer   *)
(*                keeps calling and that the I/O answers                    *)
(*   SpecOffsets  incremental reads with a missing file and failing I/O     *)
(*   SpecTokens   a session transcript, its writer, getSessionTokens and    *)
(*                the token cache                                           *)
(*   SpecListing  the body of getSessions entry by entry, with the          *)
(*                resolution of entries by timestamp and the archive        *)
(*   SpecJoin     the same body with a call that joins it while pending     *)
(*   SpecIndex    the file index: findSessionFile, buildFileIndex,          *)
(*                addToFileIndex and a writer that creates transcripts      *)
(*   SpecBranch   the conversation view (unnamed/part_002): buildBranch     *)
(*                over the messages that arrive and the recorded choices    *)
(*   SpecWalk     one execution of buildBranch, iteration by iteration, on  *)
(*                messages whose uuids need not be distinct                 *)
(*   SpecHandles  getConversationStream and getSessionTokens as to their    *)
(*                file handle, every await able to fail                     *)
(*   SpecView     the session view, its stream connection and the           *)
(*                transcript the stream reads                               *)
(*   SpecRetry    the session view through renders, unmounts, errors of the *)
(*                stream, retry timers and "messages" events                *)
(*   SpecSidecar  archiveSession and unarchiveSession with their writes to  *)
(*                the sidecar file                                          *)
(*   SpecSearch   searchSessions over the transcripts of two sessions       *)
(*   SpecEncode   encodeProjectPath applied to every short path             *)
(*   SpecList     the search box of the session list, its debounce timer    *)
(*                and its search requests                                   *)
(*   SpecExport   conversationToMarkdown applied to short conversations     *)
(***************************************************************************)
EXTENDS Integers, Sequences, FiniteSets, TLC

\* ------------------------------------------------------------------------
\* Bounds of the model
\* ------------------------------------------------------------------------

\* calls of getSessions / getProjects made in one run
MaxCalls == 2
\* lines written to the session transcript in one run
MaxLines == 2
\* connections the session view makes in one run of its life cycle
MaxRetryConnects == 12
\* changes of the text of the search box in one run
MaxTyped == 3
\* messages of a conversation that is exported
MaxExport == 3
\* calls of getConversationStream made in one run
MaxReads == 2
\* calls of getSessionTokens made in one run
MaxTokenCalls == 2
\* entries of the history a listing is built from
MaxEntries == 2
\* calls of findSessionFile made in one run (they may overlap)
MaxFinds == 2
\* calls of addToFileIndex made in one run
MaxSeeds == 1
\* messages of the session that the conversation view is given
MaxMessages == 3
\* branch choices recorded in one run
MaxChoices == 1
\* executions of the transcript readers followed for their file handles
MaxReaders == 2
\* connections the session view makes to the stream
MaxConnects == 2
\* calls of archiveSession and unarchiveSession in one run
MaxWrites == 3
\* lines in the transcripts that are searched, all sessions together
MaxSearchLines == 4
\* characters of a path given to encodeProjectPath
MaxPathLen == 3
\* events of the environment in one run: clock ticks, lines appended to
\* the history log, calls of invalidateHistoryCache
MaxEnv == 2

\* ------------------------------------------------------------------------
\* Values
\* ------------------------------------------------------------------------

\* an optional value: <<>> is null / absent, <<x>> is x
Null == <<>>
Some(x) == <<x>>
Val(o) == o[1]

\* storage.ts:88
HISTORY_CACHE_TTL_MS == 5000

\* Date.now() when the process starts: far above the TTL, as any epoch time
EpochStart == 20 * HISTORY_CACHE_TTL_MS
\* the clock advances by one of these amounts (ms)
TickSteps == {HISTORY_CACHE_TTL_MS, HISTORY_CACHE_TTL_MS + 1}

\* lines of history.jsonl: a well-formed entry, the JSON text null (parses,
\* but is no object)
HistoryLines ==
  { [kind |-> "entry", sessionId |-> "s1", timestamp |-> 1, project |-> "/a"],
    [kind |-> "null"] }

\* a line of history.jsonl that is not JSON
BadHistoryLine == [kind |-> "bad"]

SessionIds == {"s1", "s2"}

VARIABLES
  \* --- storage core (api/storage.ts) ---
  now,               \* Date.now()
  ticks,             \* clock ticks so far (bounds the run)
  historyLog,        \* history.jsonl on disk: Null (absent or unreadable) or Some(lines)
  historyCache,      \* storage.ts:86, Null or Some(entries)
  historyCacheTime,  \* storage.ts:87
  archivedSessions,  \* storage.ts:92
  pendingRequests,   \* storage.ts:89, key -> the call whose promise is stored, 0 if none
  calls,             \* the calls made so far, each with the position of its execution
  nCalls,            \* number of calls made
  hist,              \* history (ghost) variables used to state the claims
  \* --- change watcher (src/watcher.ts) ---
  watcher,           \* watcher.ts:12, TRUE while this.watcher is set
  debounceTimers,    \* watcher.ts:14, path -> timer handle, 0 if none
  timers,            \* the runtime's pending timers: records [id, path, remaining]
  wlog,              \* history variables of the watcher
  \* --- a session transcript on disk and its readers (api/storage.ts) ---
  transcript,        \* <sessionId>.jsonl: [lines, open]; open: the last line has no newline yet
  mtimeMs,           \* the file's modification time
  stream,            \* the latest call of getConversationStream
  streamPrev,        \* the call of getConversationStream before it
  nReads,            \* calls of getConversationStream made
  conversation,      \* Null or the value getConversation has just returned
  \* --- getSessionTokens (api/storage.ts) ---
  tokenCache,        \* storage.ts:90, the entry of the session: Null or Some([tokens, size, mtime])
  tok,               \* the latest execution of getSessionTokens
  tokPrev,           \* the execution before it
  nTokenCalls,       \* calls of getSessionTokens made
  \* --- the body of getSessions, entry by entry (api/storage.ts) ---
  listing,           \* one execution of the body of getSessions
  \* --- the file index (api/storage.ts) ---
  disk,              \* the files of each project directory
  fileIndex,         \* storage.ts:85, session id -> path
  finds,             \* the calls of findSessionFile
  build,             \* the call of buildFileIndex
  nSeeds,            \* calls of addToFileIndex made
  \* --- the conversation view (unnamed/part_002) ---
  allConversation,   \* part_002:206, the user and assistant messages of the session
  branchChoices,     \* part_002:203, uuid of a message -> uuid of the chosen child
  conversationMessages, \* part_002:211, the branch that is shown
  nChoices,          \* choices recorded so far
  \* --- one execution of buildBranch, step by step (unnamed/part_002) ---
  walk,              \* part_002:25-63, the locals of the execution
  \* --- the file handles of the transcript readers (api/storage.ts) ---
  readers,           \* the executions of getConversationStream and getSessionTokens, as to their file handle
  \* --- the session view and its conversation stream (unnamed/part_002) ---
  view,              \* part_002:92-160, the view's stream connection, offsetRef and messages
  \* --- the archived-sessions sidecar (api/storage.ts) ---
  sidecar,           \* storage.ts:94-125, the sidecar file and the writes to it that are in flight
  \* --- searchSessions (api/storage.ts) ---
  searchIndex,       \* storage.ts:85, the sessions whose transcript is in fileIndex
  sessionFiles,      \* the transcript of each indexed session, as the lines that matter to a search
  search,            \* storage.ts:590-645, the latest call of searchSessions
  \* --- encodeProjectPath applied to a path (api/storage.ts) ---
  encoding,          \* a project path and, once encoded, the directory name encodeProjectPath returned
  \* --- the session list (web/components/session-list.tsx) ---
  list,              \* the search box of the session list, its timer and its requests
  \* --- the markdown export (web/utils/conversation-to-markdown.ts) ---
  markdown           \* a conversation and what conversationToMarkdown makes of it

coreVars == <<now, ticks, historyLog, historyCache, historyCacheTime, archivedSessions,
              pendingRequests, calls, nCalls, hist>>
watcherVars == <<watcher, debounceTimers, timers, wlog>>
fileVars == <<transcript, mtimeMs>>
streamVars == <<stream, streamPrev, nReads, conversation>>
tokenVars == <<tokenCache, tok, tokPrev, nTokenCalls>>
\* the storage core without the coalescer's map
coreButPending == <<now, ticks, historyLog, historyCache, historyCacheTime,
                    archivedSessions, calls, nCalls, hist>>

listingVars == <<listing>>

indexVars == <<disk, fileIndex, finds, build, nSeeds>>

branchVars == <<allConversation, branchChoices, conversationMessages, nChoices>>

walkVars == <<walk>>

handleVars == <<readers>>

viewVars == <<view>>

sidecarVars == <<sidecar>>

searchVars == <<searchIndex, sessionFiles, search>>

encodeVars == <<encoding>>

listVars == <<list>>

exportVars == <<markdown>>

vars == <<coreVars, watcherVars, fileVars, streamVars, tokenVars, listingVars, indexVars, branchVars, walkVars, handleVars, viewVars, sidecarVars, searchVars, encodeVars, listVars, exportVars>>

\* the variables the storage core leaves alone
notCore == <<watcherVars, fileVars, streamVars, tokenVars, listingVars, indexVars, branchVars, walkVars, handleVars, viewVars, sidecarVars, searchVars, encodeVars, listVars, exportVars>>
\* the variables the watcher leaves alone
notWatcher == <<coreVars, fileVars, streamVars, tokenVars, listingVars, indexVars, branchVars, walkVars, handleVars, viewVars, sidecarVars, searchVars, encodeVars, listVars, exportVars>>
\* the variables a writer of the transcript leaves alone
notFile == <<coreVars, watcherVars, stream, streamPrev, nReads, tokenVars, listingVars, indexVars, branchVars, walkVars, handleVars, viewVars, sidecarVars, searchVars, encodeVars, listVars, exportVars>>
\* the variables the readers of the transcript leave alone
notStream == <<coreVars, watcherVars, fileVars, tokenVars, listingVars, indexVars, branchVars, walkVars, handleVars, viewVars, sidecarVars, searchVars, encodeVars, listVars, exportVars>>
\* the variables getSessionTokens leaves alone, the coalescer's map apart
notTokens == <<coreButPending, watcherVars, fileVars, streamVars, listingVars, indexVars, branchVars, walkVars, handleVars, viewVars, sidecarVars, searchVars, encodeVars, listVars, exportVars>>
\* the variables the body of getSessions leaves alone (it reads archivedSessions)
notListing == <<coreVars, watcherVars, fileVars, streamVars, tokenVars, indexVars, branchVars, walkVars, handleVars, viewVars, sidecarVars, searchVars, encodeVars, listVars, exportVars>>
\* the variables the file index leaves alone
notIndex == <<coreVars, watcherVars, fileVars, streamVars, tokenVars, listingVars, branchVars, walkVars, handleVars, viewVars, sidecarVars, searchVars, encodeVars, listVars, exportVars>>
\* the variables the conversation view leaves alone
notBranch == <<coreVars, watcherVars, fileVars, streamVars, tokenVars, listingVars, indexVars, walkVars, handleVars, viewVars, sidecarVars, searchVars, encodeVars, listVars, exportVars>>
\* the variables an execution of buildBranch leaves alone
notWalk == <<coreVars, watcherVars, fileVars, streamVars, tokenVars, listingVars, indexVars, branchVars, handleVars, viewVars, sidecarVars, searchVars, encodeVars, listVars, exportVars>>
\* the variables the file handles of the readers leave alone
notHandles == <<coreVars, watcherVars, fileVars, streamVars, tokenVars, listingVars, indexVars, branchVars, walkVars, viewVars, sidecarVars, searchVars, encodeVars, listVars, exportVars>>
\* the variables the session view leaves alone
notView == <<coreVars, watcherVars, fileVars, streamVars, tokenVars, listingVars, indexVars, branchVars, walkVars, handleVars, sidecarVars, searchVars, encodeVars, listVars, exportVars>>
\* the variables the writes to the sidecar leave alone
notSidecar == <<coreVars, watcherVars, fileVars, streamVars, tokenVars, listingVars, indexVars, branchVars, walkVars, handleVars, viewVars, searchVars, encodeVars, listVars, exportVars>>
\* the variables searchSessions leaves alone
notSearch == <<coreVars, watcherVars, fileVars, streamVars, tokenVars, listingVars, indexVars, branchVars, walkVars, handleVars, viewVars, sidecarVars, encodeVars, listVars, exportVars>>
\* the variables an application of encodeProjectPath leaves alone
notEncode == <<coreVars, watcherVars, fileVars, streamVars, tokenVars, listingVars, indexVars, branchVars, walkVars, handleVars, viewVars, sidecarVars, searchVars, listVars, exportVars>>
\* the variables left alone by the session list (web/components/session-list.tsx)
notList == <<coreVars, watcherVars, fileVars, streamVars, tokenVars, listingVars, indexVars, branchVars, walkVars, handleVars, viewVars, sidecarVars, searchVars, encodeVars, exportVars>>
\* the variables left alone by the markdown export (web/utils/conversation-to-markdown.ts)
notExport == <<coreVars, watcherVars, fileVars, streamVars, tokenVars, listingVars, indexVars, branchVars, walkVars, handleVars, viewVars, sidecarVars, searchVars, encodeVars, listVars>>

\* ------------------------------------------------------------------------
\* History cache (storage.ts:140-143, 192-215, 334-336)
\* ------------------------------------------------------------------------

\* JSON.parse of each line, malformed lines skipped (storage.ts:196-205)
RECURSIVE parseHistory(_)
\* a variant: the first line that fails to parse ends the loop
RECURSIVE parseHistory_stopAtBad(_)
parseHistory_stopAtBad(lines) ==
  IF lines = <<>> THEN <<>>
  ELSE IF Head(lines).kind = "bad" THEN <<>>
       ELSE <<Head(lines)>> \o parseHistory_stopAtBad(Tail(lines))

parseHistory(lines) ==
  IF lines = <<>> THEN <<>>
  ELSE IF Head(lines).kind = "bad" THEN parseHistory(Tail(lines))
       ELSE <<Head(lines)>> \o parseHistory(Tail(lines))

\* what loadHistoryCache stores and returns for the content readFile gave:
\* the parsed lines, or [] when readFile threw (storage.ts:193-214)
loadedEntries(buf) ==
  IF buf = Null THEN <<>> ELSE parseHistory(Val(buf))

\* a variant: the age test includes the boundary
isHistoryCacheStale_ge ==
  historyCache = Null \/ now - historyCacheTime >= HISTORY_CACHE_TTL_MS

\* storage.ts:334-336
isHistoryCacheStale ==
  historyCache = Null \/ now - historyCacheTime > HISTORY_CACHE_TTL_MS

\* storage.ts:207-208 and 211-212: the cache and the time of the load
historyCacheAfterLoad(entries) == Some(entries)
historyCacheTimeAfterLoad == now

\* ------------------------------------------------------------------------
\* Request coalescer (storage.ts:217-229)
\* ------------------------------------------------------------------------

NoCall == 0

\* storage.ts:339, the key of getSessions
sessionsKey(includeArchived) ==
  IF includeArchived THEN "getSessions:true" ELSE "getSessions:false"

\* storage.ts:499, for the session whose transcript is modelled
tokensKey == "getSessionTokens:s1"

Keys == {sessionsKey(TRUE), sessionsKey(FALSE), tokensKey}

\* a variant: the pending promise is never found
dedupeExisting_never(key) == NoCall

\* storage.ts:218-221: the promise already stored under the key, NoCall if none
dedupeExisting(key) == pendingRequests[key]

\* storage.ts:227
dedupeRegister(key, c) == [pendingRequests EXCEPT ![key] = c]

\* a variant: the key is not deleted
dedupeFinally_keep(key) == pendingRequests

\* storage.ts:223-225, the finally callback
dedupeFinally(key) == [pendingRequests EXCEPT ![key] = NoCall]

\* ------------------------------------------------------------------------
\* getSessions and getProjects (storage.ts:338-392)
\* ------------------------------------------------------------------------

\* a promise's outcome: fulfilled with val, or rejected
Fulfilled(v) == [ok |-> TRUE, val |-> v]
Rejected == [ok |-> FALSE, val |-> <<>>]

\* entry.sessionId / entry.project of a parsed line that is no object throws
hasNullEntry(entries) == \E i \in 1..Len(entries) : entries[i].kind = "null"

\* storage.ts:344-369: one Session per session id, first entry wins,
\* archived ones dropped unless included
RECURSIVE sessionLoop(_, _, _, _)
sessionLoop(entries, includeArchived, archived, seenIds) ==
  IF entries = <<>> THEN <<>>
  ELSE LET e == Head(entries)
           isArch == e.sessionId \in archived
       IN IF e.sessionId \in seenIds \/ (isArch /\ ~includeArchived)
          THEN sessionLoop(Tail(entries), includeArchived, archived, seenIds)
          ELSE <<[id |-> e.sessionId, timestamp |-> e.timestamp,
                  project |-> e.project, archived |-> isArch]>>
               \o sessionLoop(Tail(entries), includeArchived, archived,
                              seenIds \cup {e.sessionId})

\* storage.ts:376: a stable sort by descending timestamp
RECURSIVE insertSession(_, _)
insertSession(sorted, s) ==
  IF sorted = <<>> THEN <<s>>
  ELSE IF Head(sorted).timestamp >= s.timestamp
       THEN <<Head(sorted)>> \o insertSession(Tail(sorted), s)
       ELSE <<s>> \o sorted

sortSessions_unsorted(sessions) == sessions

RECURSIVE sortSessions(_)
sortSessions(sessions) ==
  IF sessions = <<>> THEN <<>>
  ELSE insertSession(sortSessions(SubSeq(sessions, 1, Len(sessions) - 1)),
                     sessions[Len(sessions)])

\* storage.ts:341-369: the sessions built from the entries (before sorting)
buildSessions(entries, includeArchived, archived) ==
  IF hasNullEntry(entries) THEN Rejected
  ELSE Fulfilled(sessionLoop(entries, includeArchived, archived, {}))

\* storage.ts:376
sortedResult(r) == IF r.ok THEN Fulfilled(sortSessions(r.val)) ELSE r

\* storage.ts:383-391: the distinct projects (a sorted array of distinct
\* strings, modelled as their set)
projectsOf(entries) ==
  IF hasNullEntry(entries) THEN Rejected
  ELSE Fulfilled({entries[i].project : i \in 1..Len(entries)})

\* ------------------------------------------------------------------------
\* Calls
\* ------------------------------------------------------------------------

\* positions of an execution:
\*   idle       the call has not been made
\*   joined     dedupe returned the promise of another call (fn not invoked)
\*   reading    loadHistoryCache awaits readFile, nothing read yet
\*   read       readFile has read the log, its promise not yet resumed
\*   annotating getSessions awaits Promise.all(getFirstTimestamp) (371-375)
\*   fnDone     fn's promise has settled, the finally callback has not run
\*   settled    the promise the caller holds has settled
IdleCall ==
  [fn |-> "none", includeArchived |-> FALSE, pc |-> "idle", promise |-> NoCall,
   invoked |-> FALSE, buf |-> Null, result |-> Rejected,
   didRead |-> FALSE, preInval |-> FALSE, startFresh |-> FALSE]

CallIds == 1..MaxCalls

\* history variable: a history load has completed at most
\* HISTORY_CACHE_TTL_MS ago, with no invalidation since
loadIsFresh ==
  /\ hist.lastLoadDone # Null
  /\ now - Val(hist.lastLoadDone) <= HISTORY_CACHE_TTL_MS

\* a fresh call record
newCall(fn, ia) ==
  [IdleCall EXCEPT !.fn = fn, !.includeArchived = ia, !.startFresh = loadIsFresh]

\* storage.ts:338-340, 217-229: a client calls getSessions(includeArchived)
getSessions(includeArchived) ==
  /\ nCalls < MaxCalls
  /\ LET c == nCalls + 1
         key == sessionsKey(includeArchived)
         existing == dedupeExisting(key)
         call == newCall("getSessions", includeArchived)
     IN /\ nCalls' = c
        /\ IF existing # NoCall
           THEN \* return existing
                /\ calls' = [calls EXCEPT ![c] =
                               [call EXCEPT !.pc = "joined", !.promise = existing]]
                /\ UNCHANGED pendingRequests
           ELSE \* fn() runs to its first await, then pendingRequests.set
                /\ calls' = [calls EXCEPT ![c] =
                     IF isHistoryCacheStale
                     THEN [call EXCEPT !.pc = "reading", !.promise = c,
                                       !.invoked = TRUE, !.didRead = TRUE]
                     ELSE [call EXCEPT !.pc = "annotating", !.promise = c,
                                       !.invoked = TRUE,
                                       !.preInval = hist.cachePreInval,
                                       !.result = buildSessions(Val(historyCache),
                                                    includeArchived, archivedSessions)]]
                /\ pendingRequests' = dedupeRegister(key, c)
  /\ UNCHANGED <<now, ticks, historyLog, historyCache, historyCacheTime,
                 archivedSessions, hist>>
  /\ UNCHANGED notCore

\* storage.ts:381-392: a client calls getProjects()
getProjects ==
  /\ nCalls < MaxCalls
  /\ LET c == nCalls + 1
         call == newCall("getProjects", FALSE)
     IN /\ nCalls' = c
        /\ calls' = [calls EXCEPT ![c] =
             IF isHistoryCacheStale
             THEN [call EXCEPT !.pc = "reading", !.promise = c, !.invoked = TRUE,
                               !.didRead = TRUE]
             ELSE [call EXCEPT !.pc = "settled", !.promise = c, !.invoked = TRUE,
                               !.preInval = hist.cachePreInval,
                               !.result = projectsOf(Val(historyCache))]]
  /\ UNCHANGED <<now, ticks, historyLog, historyCache, historyCacheTime,
                 archivedSessions, pendingRequests, hist>>
  /\ UNCHANGED notCore

\* storage.ts:195: readFile reads the log at some moment while it is awaited
readHistoryFile(c) ==
  /\ calls[c].pc = "reading"
  /\ calls' = [calls EXCEPT ![c].pc = "read", ![c].buf = historyLog]
  /\ UNCHANGED <<now, ticks, historyLog, historyCache, historyCacheTime,
                 archivedSessions, pendingRequests, nCalls, hist>>
  /\ UNCHANGED notCore

\* storage.ts:196-214 and the caller's code up to its next await:
\* loadHistoryCache resumes, stores the cache and returns the entries;
\* getSessions builds its sessions (341-369), getProjects returns (383-391)
loadHistoryCache(c) ==
  /\ calls[c].pc = "read"
  /\ LET entries == loadedEntries(calls[c].buf)
     IN /\ historyCache' = historyCacheAfterLoad(entries)
        /\ historyCacheTime' = historyCacheTimeAfterLoad
        /\ hist' = [hist EXCEPT !.cachePreInval = calls[c].preInval,
                                !.lastLoadDone = Some(now)]
        /\ calls' = [calls EXCEPT ![c] =
             IF calls[c].fn = "getSessions"
             THEN [calls[c] EXCEPT !.pc = "annotating", !.buf = Null,
                     !.result = buildSessions(entries, calls[c].includeArchived,
                                              archivedSessions)]
             ELSE [calls[c] EXCEPT !.pc = "settled", !.buf = Null,
                     !.result = projectsOf(entries)]]
  /\ UNCHANGED <<now, ticks, historyLog, archivedSessions, pendingRequests, nCalls>>
  /\ UNCHANGED notCore

\* storage.ts:371-378: the annotation is over, fn sorts and returns (or has
\* thrown): fn's promise settles
fnReturn(c) ==
  /\ calls[c].pc = "annotating"
  /\ calls' = [calls EXCEPT ![c].pc = "fnDone",
                            ![c].result = sortedResult(@)]
  /\ UNCHANGED <<now, ticks, historyLog, historyCache, historyCacheTime,
                 archivedSessions, pendingRequests, nCalls, hist>>
  /\ UNCHANGED notCore

\* storage.ts:223-225: the finally callback runs, then the promise that
\* dedupe returned settles with fn's outcome
dedupeSettle(c) ==
  /\ calls[c].pc = "fnDone"
  /\ pendingRequests' = dedupeFinally(sessionsKey(calls[c].includeArchived))
  /\ calls' = [calls EXCEPT ![c].pc = "settled"]
  /\ UNCHANGED <<now, ticks, historyLog, historyCache, historyCacheTime,
                 archivedSessions, nCalls, hist>>
  /\ UNCHANGED notCore

\* environment events so far
envEvents ==
  ticks + hist.epoch + (IF historyLog = Null THEN 0 ELSE Len(Val(historyLog)))

\* storage.ts:140-143
invalidateHistoryCache ==
  /\ envEvents < MaxEnv
  /\ historyCache' = Null
  /\ historyCacheTime' = 0
  /\ hist' = [hist EXCEPT !.epoch = @ + 1, !.lastLoadDone = Null,
                          !.cachePreInval = FALSE]
  /\ calls' = [c \in CallIds |->
                 IF calls[c].pc = "read"
                 THEN [calls[c] EXCEPT !.preInval = TRUE] ELSE calls[c]]
  /\ UNCHANGED <<now, ticks, historyLog, archivedSessions, pendingRequests, nCalls>>
  /\ UNCHANGED notCore

\* storage.ts:117-118 and 122-123 (the in-memory set)
archiveSession(id) ==
  /\ id \notin archivedSessions
  /\ archivedSessions' = archivedSessions \cup {id}
  /\ UNCHANGED <<now, ticks, historyLog, historyCache, historyCacheTime,
                 pendingRequests, calls, nCalls, hist>>
  /\ UNCHANGED notCore

unarchiveSession(id) ==
  /\ id \in archivedSessions
  /\ archivedSessions' = archivedSessions \ {id}
  /\ UNCHANGED <<now, ticks, historyLog, historyCache, historyCacheTime,
                 pendingRequests, calls, nCalls, hist>>
  /\ UNCHANGED notCore

\* ------------------------------------------------------------------------
\* Environment: the clock and the external writer of history.jsonl
\* ------------------------------------------------------------------------

Tick(d) ==
  /\ envEvents < MaxEnv
  /\ ticks' = ticks + 1
  /\ now' = now + d
  /\ UNCHANGED <<historyLog, historyCache, historyCacheTime, archivedSessions,
                 pendingRequests, calls, nCalls, hist>>
  /\ UNCHANGED notCore

\* the external writer appends one line (creating the file when absent)
appendHistory(line) ==
  /\ LET lines == IF historyLog = Null THEN <<>> ELSE Val(historyLog)
     IN /\ envEvents < MaxEnv
        /\ historyLog' = Some(Append(lines, line))
  /\ UNCHANGED <<now, ticks, historyCache, historyCacheTime, archivedSessions,
                 pendingRequests, calls, nCalls, hist>>
  /\ UNCHANGED notCore

InitCore ==
  /\ now = EpochStart
  /\ ticks = 0
  /\ historyLog = Null
  /\ historyCache = Null
  /\ historyCacheTime = 0
  /\ archivedSessions = {}
  /\ pendingRequests = [k \in Keys |-> NoCall]
  /\ calls = [c \in CallIds |-> IdleCall]
  /\ nCalls = 0
  /\ hist = [epoch |-> 0, cachePreInval |-> FALSE, lastLoadDone |-> Null]

\* ------------------------------------------------------------------------
\* Change watcher (src/watcher.ts)
\* ------------------------------------------------------------------------

\* watcher.ts:15
debounceMs == 20

\* the clock of the watcher advances in steps of this size (ms)
TickMs == debounceMs \div 2

\* simultaneously pending timers of the runtime
MaxTimers == 3

TimerIds == 1..MaxTimers
NoTimer == 0

\* a watched path: its directory, and its file name as stem chunks and
\* extension (stem <<"x", "history">> is the file name xhistory)
HistoryPath == [dir |-> "", stem |-> <<"history">>, ext |-> ".jsonl"]
TranscriptPath == [dir |-> "-a", stem |-> <<"s1">>, ext |-> ".jsonl"]
OtherPath == [dir |-> "-a", stem |-> <<"notes">>, ext |-> ".txt"]
\* a transcript of project -a whose file name is xhistory.jsonl
XHistoryPath == [dir |-> "-a", stem |-> <<"x", "history">>, ext |-> ".jsonl"]
Paths == {HistoryPath, TranscriptPath, OtherPath, XHistoryPath}

\* watcher.ts:60, path.endsWith("history.jsonl")
endsWithHistoryJsonl(path) ==
  path.ext = ".jsonl" /\ path.stem[Len(path.stem)] = "history"

\* watcher.ts:59-68: the events emitChange emits, in order
emitChange(path) ==
  IF endsWithHistoryJsonl(path) THEN <<[event |-> "historyChange"]>>
  ELSE IF path.ext = ".jsonl"
       THEN <<[event |-> "sessionChange", arg |-> path.stem],
              [event |-> "projectChange", arg |-> path.dir]>>
       ELSE <<>>

\* the pending timers of a path
timersOf(path) == {t \in timers : t.path = path}

\* a variant: the previous timer of the path is not cleared
afterClearExisting_keep(path) == timers

\* watcher.ts:46-49: clearTimeout(existing)
afterClearExisting(path) ==
  {t \in timers : t.id # debounceTimers[path]}

\* a variant: stop() leaves the pending timers alone
afterStopClear_keep == timers

\* watcher.ts:76-78: clearTimeout of every timer of debounceTimers
afterStopClear ==
  {t \in timers : \A path \in Paths : debounceTimers[path] # t.id}

\* what the latest step of the watcher did (history variable): the events it
\* emitted, and for a firing timer how long its path had been quiet and
\* whether raw events of the path were waiting for their notification; for
\* stop(), whether timers were pending
wstepOf(op, path, emitted, quiet, hadEvents) ==
  [op |-> op, path |-> path, emitted |-> emitted, quiet |-> quiet,
   hadEvents |-> hadEvents]

NoPath == [dir |-> "", stem |-> <<"">>, ext |-> ""]

\* watcher.ts:22-43
start ==
  /\ ~watcher
  /\ watcher' = TRUE
  /\ wlog' = [wlog EXCEPT !.step = wstepOf("start", NoPath, <<>>, 0, FALSE)]
  /\ UNCHANGED <<debounceTimers, timers>>
  /\ UNCHANGED notWatcher

\* watcher.ts:38-39 and 45-57: the file watcher delivers a raw change or add
\* event for a path, handleChange(path) runs. Events come from this.watcher,
\* which exists between start() and stop() only (close() detaches the
\* listeners).
handleChange(path) ==
  /\ watcher
  /\ \E id \in TimerIds : \A t \in afterClearExisting(path) : t.id # id
  /\ LET cleared == afterClearExisting(path)
         id == CHOOSE i \in TimerIds : \A t \in cleared : t.id # i
     IN /\ timers' = cleared \cup {[id |-> id, path |-> path, remaining |-> debounceMs]}
        /\ debounceTimers' = [debounceTimers EXCEPT ![path] = id]
  /\ wlog' = [wlog EXCEPT !.step = wstepOf("event", path, <<>>, 0, FALSE),
                          !.quietFor[path] = 0,
                          !.unnotified[path] = TRUE]
  /\ UNCHANGED watcher
  /\ UNCHANGED notWatcher

\* watcher.ts:51-54: a timer whose delay has elapsed fires
timerFire(t) ==
  /\ t \in timers
  /\ t.remaining = 0
  /\ timers' = timers \ {t}
  /\ debounceTimers' = [debounceTimers EXCEPT ![t.path] = NoTimer]
  /\ wlog' = [wlog EXCEPT !.step = wstepOf("fire", t.path, emitChange(t.path),
                                           wlog.quietFor[t.path],
                                           wlog.unnotified[t.path]),
                          !.unnotified[t.path] = FALSE]
  /\ UNCHANGED watcher
  /\ UNCHANGED notWatcher

\* watcher.ts:70-80
stop ==
  /\ watcher' = FALSE
  /\ timers' = afterStopClear
  /\ debounceTimers' = [path \in Paths |-> NoTimer]
  /\ wlog' = [wlog EXCEPT !.step = wstepOf("stop", NoPath, <<>>, 0, timers # {}),
                          !.unnotified = [path \in Paths |-> FALSE]]
  /\ UNCHANGED notWatcher

\* TickMs milliseconds pass: every pending timer comes closer to its
\* deadline (a timer never fires early; it may fire late)
tickWatcher ==
  /\ \E t \in timers : t.remaining > 0
  /\ timers' = {[t EXCEPT !.remaining = IF @ > TickMs THEN @ - TickMs ELSE 0] :
                  t \in timers}
  /\ wlog' = [wlog EXCEPT !.step = wstepOf("tick", NoPath, <<>>, 0, FALSE),
                          !.quietFor = [path \in Paths |->
                             IF wlog.quietFor[path] + TickMs >= debounceMs
                             THEN debounceMs ELSE wlog.quietFor[path] + TickMs]]
  /\ UNCHANGED <<watcher, debounceTimers>>
  /\ UNCHANGED notWatcher

InitWatcher ==
  /\ watcher = FALSE
  /\ debounceTimers = [path \in Paths |-> NoTimer]
  /\ timers = {}
  /\ wlog = [step |-> wstepOf("init", NoPath, <<>>, 0, FALSE),
             quietFor |-> [path \in Paths |-> debounceMs],
             unnotified |-> [path \in Paths |-> FALSE]]

\* ------------------------------------------------------------------------
\* The session transcript on disk and its writer
\* ------------------------------------------------------------------------

\* A line is the text of one JSON value. type is the "type" field of the
\* object it parses to, with two special cases: "blank" is an empty line,
\* "bad" a text that JSON.parse rejects or that parses to null (reading
\* msg.type then throws inside the same try block). bytes is its length
\* without the newline, usage its message.usage field.
LineBytes(type) ==
  CASE type = "blank" -> 0
    [] type = "assistant" -> 3
    [] OTHER -> 2

StreamLineTypes == {"user", "assistant", "summary", "blank", "bad"}

StreamLines ==
  {[type |-> t, bytes |-> LineBytes(t), usage |-> Null] : t \in StreamLineTypes}

\* the lines whose append is seen to reach the disk in two parts
PartialLines == {line \in StreamLines : line.type = "assistant"}

\* a line on disk: only its first written bytes are there yet
onDisk(line, written) ==
  [type |-> line.type, bytes |-> line.bytes, usage |-> line.usage, written |-> written]

\* what JSON.parse makes of the text of a line on disk: a proper prefix of a
\* JSON object is not JSON
textType(l) == IF l.written < l.bytes THEN "bad" ELSE l.type

\* byte offset of the start of line i (every line before it ends in "\n")
RECURSIVE lineStart(_, _)
lineStart(lines, i) ==
  IF i = 1 THEN 0 ELSE lineStart(lines, i - 1) + lines[i - 1].written + 1

\* fs.stat(filePath).size
fileSizeOf(f) ==
  IF f.lines = <<>> THEN 0
  ELSE lineStart(f.lines, Len(f.lines) + 1) - (IF f.open THEN 1 ELSE 0)

\* The lines that readline yields for a stream of the file that starts at
\* byte off, each with the index of its line in the file, its length in
\* bytes and the type of its text. A stream that starts inside a line
\* yields the rest of that line first: a proper suffix of a JSON object is
\* not JSON, and the empty rest before the newline is an empty line.
\* Nothing is yielded for an empty rest at the end of the file.
readLines(f, off) ==
  LET n == Len(f.lines)
      lineEnd(i) == lineStart(f.lines, i) + f.lines[i].written
      yielded(i) == IF i = n /\ f.open THEN off < lineEnd(i) ELSE off <= lineEnd(i)
      count == Cardinality({i \in 1..n : yielded(i)})
      first == n - count + 1
      yield(i) ==
        LET whole == off <= lineStart(f.lines, i)
            k == IF whole THEN f.lines[i].written ELSE lineEnd(i) - off
        IN  [line |-> i,
             bytes |-> k,
             type |-> IF whole THEN textType(f.lines[i])
                      ELSE IF k = 0 THEN "blank" ELSE "bad"]
  IN  [j \in 1..count |-> yield(first + j - 1)]

\* A writer appends one complete line with its newline.
appendLine(line) ==
  /\ ~transcript.open
  /\ Len(transcript.lines) < MaxLines
  /\ transcript' = [transcript EXCEPT !.lines = Append(@, onDisk(line, line.bytes))]
  /\ mtimeMs' = mtimeMs + 1
  /\ conversation' = Null
  /\ UNCHANGED notFile

\* A writer's append reaches the disk in two parts: first written bytes of
\* the line (all of them, or a proper prefix), without the newline.
appendPartial(line, written) ==
  /\ ~transcript.open
  /\ Len(transcript.lines) < MaxLines
  /\ written \in {1, line.bytes}
  /\ transcript' = [lines |-> Append(transcript.lines, onDisk(line, written)),
                    open |-> TRUE]
  /\ mtimeMs' = mtimeMs + 1
  /\ conversation' = Null
  /\ UNCHANGED notFile

\* The rest of the last line and its newline reach the disk.
flushLine ==
  /\ transcript.open
  /\ LET n == Len(transcript.lines) IN
     transcript' =
       [lines |-> [transcript.lines EXCEPT ![n].written = transcript.lines[n].bytes],
        open |-> FALSE]
  /\ mtimeMs' = mtimeMs + 1
  /\ conversation' = Null
  /\ UNCHANGED notFile

InitFile ==
  /\ transcript = [lines |-> <<>>, open |-> FALSE]
  /\ mtimeMs = 1

\* ------------------------------------------------------------------------
\* getConversation and getConversationStream
\* (the session file is taken to exist and to be found by findSessionFile,
\* and stat, open and read to succeed)
\* ------------------------------------------------------------------------

\* the message a line parses to, identified by the line it comes from
messageOf(l) == [line |-> l.line, type |-> l.type]

conversationKeeps_withSummary(type) == type \in {"user", "assistant", "summary"}

\* storage.ts:413
conversationKeeps(type) == type \in {"user", "assistant"}

\* storage.ts:408-421: content.trim().split("\n").filter(Boolean) drops the
\* empty lines; a line that does not parse is skipped
RECURSIVE conversationLoop(_, _, _)
conversationLoop(rl, i, messages) ==
  IF i > Len(rl) THEN messages
  ELSE LET l == rl[i] IN
       IF l.type \in {"blank", "bad"} THEN conversationLoop(rl, i + 1, messages)
       ELSE IF conversationKeeps(l.type)
            THEN conversationLoop(rl, i + 1, Append(messages, messageOf(l)))
       ELSE IF l.type = "summary"
            THEN conversationLoop(rl, i + 1, <<messageOf(l)>> \o messages)
       ELSE conversationLoop(rl, i + 1, messages)

streamKeeps_userOnly(type) == type = "user"

\* storage.ts:470
streamKeeps(type) == type \in {"user", "assistant"}

\* a variant: the bytes of an empty line are not counted
RECURSIVE streamLoop_blankNotCounted(_, _, _, _)
streamLoop_blankNotCounted(rl, i, messages, bytesConsumed) ==
  IF i > Len(rl) THEN [messages |-> messages, bytesConsumed |-> bytesConsumed]
  ELSE LET l == rl[i]
           lineBytes == l.bytes + 1
       IN  IF l.type = "blank"
           THEN streamLoop_blankNotCounted(rl, i + 1, messages, bytesConsumed)
           ELSE IF l.type = "bad"
           THEN [messages |-> messages, bytesConsumed |-> bytesConsumed]
           ELSE streamLoop_blankNotCounted(rl, i + 1,
                           IF streamKeeps(l.type) THEN Append(messages, messageOf(l))
                           ELSE messages,
                           bytesConsumed + lineBytes)

\* storage.ts:464-480
RECURSIVE streamLoop(_, _, _, _)
streamLoop(rl, i, messages, bytesConsumed) ==
  IF i > Len(rl) THEN [messages |-> messages, bytesConsumed |-> bytesConsumed]
  ELSE LET l == rl[i]
           lineBytes == l.bytes + 1
       IN  IF l.type = "blank"
           THEN streamLoop(rl, i + 1, messages, bytesConsumed + lineBytes)
           ELSE IF l.type = "bad"
           THEN [messages |-> messages, bytesConsumed |-> bytesConsumed]
           ELSE streamLoop(rl, i + 1,
                           IF streamKeeps(l.type) THEN Append(messages, messageOf(l))
                           ELSE messages,
                           bytesConsumed + lineBytes)

\* storage.ts:482-483
nextOffsetOf(fromOffset, bytesConsumed, fileSize) ==
  LET actualOffset == fromOffset + bytesConsumed
  IN  IF actualOffset > fileSize THEN fileSize ELSE actualOffset

\* A call of getConversationStream. pc: "stat" waits for stat, "read" for
\* the stream, "done" has returned {messages, nextOffset}. The other fields
\* are history variables: the file's mtime when stat and the stream saw it,
\* its size when the stream saw it and whether it ended in a newline then,
\* the lines the stream yielded, and the messages the consumer has received
\* from the calls it chained up to this one.
IdleStream ==
  [pc |-> "idle", fromOffset |-> 0, fileSize |-> 0, messages |-> <<>>, nextOffset |-> 0,
   statAt |-> 0, readAt |-> 0, sizeAtRead |-> 0, atBoundary |-> TRUE, seen |-> <<>>,
   received |-> <<>>]

\* what is kept of the call before the latest one: what it was asked, the
\* messages it returned, and whether the file it read ended at a line
\* boundary and was the file that stat had seen
IdlePrev ==
  [pc |-> "idle", fromOffset |-> 0, messages |-> <<>>, sizeAtRead |-> 0,
   atBoundary |-> TRUE, static |-> TRUE]

asPrev(r) ==
  [pc |-> r.pc, fromOffset |-> r.fromOffset, messages |-> r.messages,
   sizeAtRead |-> r.sizeAtRead, atBoundary |-> r.atBoundary,
   static |-> r.statAt = r.readAt]

\* storage.ts:430-444, up to the await of stat
getConversationStream(fromOffset) ==
  /\ stream.pc \in {"idle", "done"}
  /\ nReads < MaxReads
  /\ nReads' = nReads + 1
  /\ streamPrev' = asPrev(stream)
  /\ stream' = [IdleStream EXCEPT !.pc = "stat", !.fromOffset = fromOffset]
  /\ conversation' = Null
  /\ UNCHANGED notStream

\* storage.ts:444-451: stat has answered
streamStat ==
  /\ stream.pc = "stat"
  /\ LET fileSize == fileSizeOf(transcript) IN
     stream' =
       IF stream.fromOffset >= fileSize
       THEN [stream EXCEPT !.pc = "done", !.fileSize = fileSize,
                           !.messages = <<>>, !.nextOffset = stream.fromOffset,
                           !.statAt = mtimeMs, !.readAt = mtimeMs,
                           !.sizeAtRead = fileSize, !.atBoundary = ~transcript.open]
       ELSE [stream EXCEPT !.pc = "read", !.fileSize = fileSize, !.statAt = mtimeMs]
  /\ conversation' = Null
  /\ UNCHANGED <<streamPrev, nReads>>
  /\ UNCHANGED notStream

\* storage.ts:451-485: the stream, opened without an end, delivers the file
\* as it is now from fromOffset on
streamRead ==
  /\ stream.pc = "read"
  /\ LET rl == readLines(transcript, stream.fromOffset)
         r == streamLoop(rl, 1, <<>>, 0)
     IN  stream' =
           [stream EXCEPT !.pc = "done", !.messages = r.messages,
                          !.received = @ \o r.messages,
                          !.nextOffset = nextOffsetOf(stream.fromOffset, r.bytesConsumed,
                                                      stream.fileSize),
                          !.readAt = mtimeMs, !.sizeAtRead = fileSizeOf(transcript),
                          !.atBoundary = ~transcript.open, !.seen = rl]
  /\ conversation' = Null
  /\ UNCHANGED <<streamPrev, nReads>>
  /\ UNCHANGED notStream

\* storage.ts:430-444: the consumer calls again with the nextOffset it
\* received last (0 for its first call) and keeps what it has received
tailNext ==
  /\ stream.pc \in {"idle", "done"}
  /\ streamPrev' = asPrev(stream)
  /\ stream' = [IdleStream EXCEPT !.pc = "stat", !.fromOffset = stream.nextOffset,
                                  !.received = stream.received]
  /\ conversation' = Null
  /\ UNCHANGED nReads
  /\ UNCHANGED notStream

\* storage.ts:434-440: findSessionFile has found no file for the session
streamNotFound ==
  /\ stream.pc = "stat"
  /\ stream' = [stream EXCEPT !.pc = "done", !.messages = <<>>, !.nextOffset = 0]
  /\ conversation' = Null
  /\ UNCHANGED <<streamPrev, nReads>>
  /\ UNCHANGED notStream

\* storage.ts:486-487: stat, open or the stream has thrown
streamFails ==
  /\ stream.pc \in {"stat", "read"}
  /\ stream' = [stream EXCEPT !.pc = "done", !.messages = <<>>,
                              !.nextOffset = stream.fromOffset]
  /\ conversation' = Null
  /\ UNCHANGED <<streamPrev, nReads>>
  /\ UNCHANGED notStream

\* storage.ts:394-428. conversation holds the value a call returns until
\* the next step of the model.
getConversation ==
  /\ conversation' = Some(conversationLoop(readLines(transcript, 0), 1, <<>>))
  /\ UNCHANGED <<stream, streamPrev, nReads>>
  /\ UNCHANGED notStream

InitStream ==
  /\ stream = IdleStream
  /\ streamPrev = IdlePrev
  /\ nReads = 0
  /\ conversation = Null

\* ------------------------------------------------------------------------
\* getSessionTokens and the token cache
\* (the session file is taken to exist and to be found by findSessionFile,
\* and stat, open and read to succeed)
\* ------------------------------------------------------------------------

\* message.usage of a line: each field is absent (Null) or a number
usageOf(input, cacheCreation, cacheRead, output) ==
  Some([input_tokens |-> input, cache_creation_input_tokens |-> cacheCreation,
        cache_read_input_tokens |-> cacheRead, output_tokens |-> output])

\* the lines written to a transcript whose tokens are counted
TokenLines ==
  { [type |-> "assistant", bytes |-> 3, usage |-> usageOf(Some(1), Some(2), Null, Some(1))],
    [type |-> "assistant", bytes |-> 3, usage |-> usageOf(Null, Some(0), Some(3), Null)],
    [type |-> "user", bytes |-> 2, usage |-> Null] }

\* the lines whose append is seen to reach the disk in two parts
TokenPartialLines == {line \in TokenLines : line.usage # Null /\ Val(line.usage).output_tokens # Null}

\* x || 0 for x absent or a number
orZero(x) == IF x = Null THEN 0 ELSE Val(x)

\* storage.ts:536-540
lastUsageOf(usage) ==
  [input |-> orZero(usage.input_tokens),
   cacheCreation |-> orZero(usage.cache_creation_input_tokens),
   cacheRead |-> orZero(usage.cache_read_input_tokens)]

inputTokensOf_inputOnly(lastUsage) ==
  IF lastUsage = Null THEN 0 ELSE Val(lastUsage).input

\* storage.ts:549
inputTokensOf(lastUsage) ==
  IF lastUsage = Null THEN 0
  ELSE Val(lastUsage).input + Val(lastUsage).cacheCreation + Val(lastUsage).cacheRead

\* storage.ts:548-553
sessionTokens(lastUsage, totalOutputTokens) ==
  [inputTokens |-> inputTokensOf(lastUsage),
   outputTokens |-> totalOutputTokens,
   cacheCreationTokens |-> IF lastUsage = Null THEN 0 ELSE Val(lastUsage).cacheCreation,
   cacheReadTokens |-> IF lastUsage = Null THEN 0 ELSE Val(lastUsage).cacheRead]

\* storage.ts:527-546: blank lines and lines that do not parse are skipped,
\* a line without message.usage changes nothing
RECURSIVE tokensLoop(_, _, _, _)
tokensLoop(rl, i, lastUsage, totalOutputTokens) ==
  IF i > Len(rl) THEN sessionTokens(lastUsage, totalOutputTokens)
  ELSE LET l == rl[i] IN
       IF l.type \in {"blank", "bad"} \/ l.usage = Null
       THEN tokensLoop(rl, i + 1, lastUsage, totalOutputTokens)
       ELSE tokensLoop(rl, i + 1, Some(lastUsageOf(Val(l.usage))),
                       totalOutputTokens + orZero(Val(l.usage).output_tokens))

\* the lines readline yields for the whole file, each with the usage of
\* the line it is the text of
usageLines(f) ==
  LET rl == readLines(f, 0)
  IN  [j \in 1..Len(rl) |->
         [line |-> rl[j].line, type |-> rl[j].type, bytes |-> rl[j].bytes,
          usage |-> f.lines[rl[j].line].usage]]

\* a variant: an entry is served without comparing it with the file
cacheHit_unchecked(cached, fileSize, mtime) == cached # Null

cacheHit_mtimeOnly(cached, fileSize, mtime) ==
  cached # Null /\ Val(cached).mtime = mtime

\* storage.ts:512-513
cacheHit(cached, fileSize, mtime) ==
  cached # Null /\ Val(cached).size = fileSize /\ Val(cached).mtime = mtime

\* the one call whose promise the coalescer stores under tokensKey
TokenCall == 1

\* An execution of getSessionTokens. pc: "stat" waits for stat, "read" for
\* the stream, "fnDone" has returned result, "settled" has freed its key.
\* fileSize and mtime are what stat answered. History variables: cached is
\* the cache entry found after stat, opened whether the file was opened,
\* joined the calls that were handed this execution's promise, cleared
\* whether invalidateTokenCache ran after this execution looked up or set
\* the cache entry, nLines, open and lastLine the file the stream saw.
IdleTok ==
  [pc |-> "idle", fileSize |-> 0, mtime |-> 0, result |-> Null,
   cached |-> Null, opened |-> FALSE, joined |-> 0, cleared |-> FALSE,
   nLines |-> 0, open |-> FALSE, lastLine |-> Null]

\* storage.ts:496-508, up to the await of stat, or the promise in flight
getSessionTokens ==
  /\ nTokenCalls < MaxTokenCalls
  /\ nTokenCalls' = nTokenCalls + 1
  /\ IF dedupeExisting(tokensKey) # NoCall
     THEN /\ tok' = [tok EXCEPT !.joined = @ + 1]
          /\ UNCHANGED <<tokPrev, pendingRequests>>
     ELSE /\ tokPrev' = [tok EXCEPT !.cached = Null, !.joined = 0, !.lastLine = Null]
          /\ tok' = [IdleTok EXCEPT !.pc = "stat"]
          /\ pendingRequests' = dedupeRegister(tokensKey, TokenCall)
  /\ UNCHANGED tokenCache
  /\ UNCHANGED notTokens

\* storage.ts:508-517: stat has answered, the cache entry is looked up
tokensStat ==
  /\ tok.pc = "stat"
  /\ LET fileSize == fileSizeOf(transcript)
         mtime == mtimeMs
         cached == tokenCache
     IN  tok' =
           IF cacheHit(cached, fileSize, mtime)
           THEN [tok EXCEPT !.pc = "fnDone", !.fileSize = fileSize, !.mtime = mtime,
                            !.cached = cached, !.cleared = FALSE,
                            !.result = Some(Val(cached).tokens)]
           ELSE [tok EXCEPT !.pc = "read", !.fileSize = fileSize, !.mtime = mtime,
                            !.cached = cached]
  /\ UNCHANGED <<tokenCache, tokPrev, nTokenCalls, pendingRequests>>
  /\ UNCHANGED notTokens

\* storage.ts:517-556: the stream delivers the file as it is now; the
\* result is stored under the size and mtime that stat answered
tokensRead ==
  /\ tok.pc = "read"
  /\ LET tokens == tokensLoop(usageLines(transcript), 1, Null, 0)
         n == Len(transcript.lines)
     IN  /\ tokenCache' = Some([tokens |-> tokens, size |-> tok.fileSize,
                                mtime |-> tok.mtime])
         /\ tok' = [tok EXCEPT !.pc = "fnDone", !.result = Some(tokens),
                               !.opened = TRUE, !.cleared = FALSE,
                               !.nLines = n, !.open = transcript.open,
                               !.lastLine = IF n = 0 THEN Null
                                            ELSE Some(transcript.lines[n])]
  /\ UNCHANGED <<tokPrev, nTokenCalls, pendingRequests>>
  /\ UNCHANGED notTokens

\* storage.ts:223-225 for tokensKey
tokensSettle ==
  /\ tok.pc = "fnDone"
  /\ tok' = [tok EXCEPT !.pc = "settled"]
  /\ pendingRequests' = dedupeFinally(tokensKey)
  /\ UNCHANGED <<tokenCache, tokPrev, nTokenCalls>>
  /\ UNCHANGED notTokens

\* storage.ts:145-151, either branch, for the session modelled
invalidateTokenCache ==
  /\ tokenCache' = Null
  /\ tok' = [tok EXCEPT !.cleared = TRUE]
  /\ tokPrev' = IF tok.pc = "stat" THEN [tokPrev EXCEPT !.cleared = TRUE] ELSE tokPrev
  /\ UNCHANGED <<nTokenCalls, pendingRequests>>
  /\ UNCHANGED notTokens

\* the file system's mtime is no finer than a millisecond: a line is
\* appended within the millisecond of the write before it
appendLineSameMs(line) ==
  /\ ~transcript.open
  /\ Len(transcript.lines) < MaxLines
  /\ transcript' = [transcript EXCEPT !.lines = Append(@, onDisk(line, line.bytes))]
  /\ conversation' = Null
  /\ UNCHANGED mtimeMs
  /\ UNCHANGED notFile

\* The file is touched, or rewritten with the text it has. The model lets
\* the mtime advance once for each write, here or when the write is made.
touchFile ==
  /\ mtimeMs <= Len(transcript.lines)
  /\ mtimeMs' = mtimeMs + 1
  /\ conversation' = Null
  /\ UNCHANGED transcript
  /\ UNCHANGED notFile

InitTokens ==
  /\ tokenCache = Null
  /\ tok = IdleTok
  /\ tokPrev = IdleTok
  /\ nTokenCalls = 0

\* ------------------------------------------------------------------------
\* The body of getSessions, entry by entry, and findSessionByTimestamp
\* (readdir and stat of findSessionByTimestamp are taken to answer for one
\* state of the directory; an entry is an object)
\* ------------------------------------------------------------------------

\* project paths, as their characters
ProjectA == <<"/", "a">>
ProjectB == <<"/", "b">>

\* a variant: replace without the g flag, only the first '/' or '.' is
\* replaced
encodeProjectPath_firstOnly(path) ==
  LET seps == {k \in 1..Len(path) : path[k] \in {"/", "."}}
  IN  [k \in 1..Len(path) |->
         IF k \in seps /\ \A j \in seps : k <= j THEN "-" ELSE path[k]]

\* storage.ts:157-159
encodeProjectPath(path) ==
  [k \in 1..Len(path) |-> IF path[k] \in {"/", "."} THEN "-" ELSE path[k]]

\* a directory entry: the file name as stem and extension, its mtimeMs
fileOf(stem, ext, mtime) == [stem |-> stem, ext |-> ext, mtime |-> mtime]

\* what readdir and stat may answer for an encoded project directory: Null
\* when the directory is missing, else the files in directory order
DirChoices(encodedProject) ==
  IF encodedProject = <<"-", "a">>
  THEN { Some(<<fileOf("s1", ".jsonl", 1), fileOf("s2", ".jsonl", 3)>>),
         Some(<<fileOf("s2", ".jsonl", 3), fileOf("notes", ".txt", 2),
                fileOf("s1", ".jsonl", 1)>>),
         Some(<<fileOf("notes", ".txt", 2)>>) }
  ELSE { Null }

\* Math.abs
abs(x) == IF x < 0 THEN -x ELSE x

closer_orEqual(timeDiff, closestTimeDiff) ==
  closestTimeDiff = Null \/ timeDiff <= Val(closestTimeDiff)

\* storage.ts:253: timeDiff < closestTimeDiff, closestTimeDiff Null for Infinity
closer(timeDiff, closestTimeDiff) ==
  closestTimeDiff = Null \/ timeDiff < Val(closestTimeDiff)

\* storage.ts:248-257
RECURSIVE closestLoop(_, _, _, _, _)
closestLoop(fileStats, k, timestamp, closestFile, closestTimeDiff) ==
  IF k > Len(fileStats) THEN closestFile
  ELSE LET timeDiff == abs(fileStats[k].mtime - timestamp) IN
       IF closer(timeDiff, closestTimeDiff)
       THEN closestLoop(fileStats, k + 1, timestamp, Some(fileStats[k]), Some(timeDiff))
       ELSE closestLoop(fileStats, k + 1, timestamp, closestFile, closestTimeDiff)

\* storage.ts:231-267: Null is undefined. dir is what readdir answered.
findSessionByTimestamp(dir, timestamp) ==
  IF dir = Null THEN Null
  ELSE LET jsonlFiles == SelectSeq(Val(dir), LAMBDA f : f.ext = ".jsonl")
           closestFile == closestLoop(jsonlFiles, 1, timestamp, Null, Null)
       IN  IF closestFile = Null THEN Null ELSE Some(Val(closestFile).stem)

\* the shapes of a history entry: sessionId is Null when the entry has none
EntryShapes ==
  { [sessionId |-> id, timestamp |-> ts, project |-> pr] :
      id \in {Null, Some("s1"), Some("s2")}, ts \in {1, 2}, pr \in {ProjectA, ProjectB} }

\* the entry of line k of the history: display tells the lines apart
entryOf(shape, k) ==
  [sessionId |-> shape.sessionId, display |-> k, timestamp |-> shape.timestamp,
   project |-> shape.project]

\* An execution of the body of getSessions. pc: "resolving" awaits
\* findSessionByTimestamp for entry i, "stamping" awaits
\* Promise.all(getFirstTimestamp), "done" has returned result.
\* History variables, one element for each entry gone through: resolved is
\* the session id the entry resolved to (Null: none), archivedSeen the
\* archived set when the entry was gone through, dirSeen the directory that
\* findSessionByTimestamp was answered for it (Null: not asked).
IdleListing ==
  [pc |-> "idle", includeArchived |-> FALSE, entries |-> <<>>, i |-> 1,
   sessions |-> <<>>, seenIds |-> {}, result |-> <<>>,
   resolved |-> <<>>, archivedSeen |-> <<>>, dirSeen |-> <<>>, joined |-> Null]

skipsEntry_noSeen(seenIds, sessionId, archived, includeArchived) ==
  archived /\ ~includeArchived

skipsEntry_keepArchived(seenIds, sessionId, archived, includeArchived) ==
  sessionId \in seenIds

\* storage.ts:351-358: a session id already seen, or archived and not asked for
skipsEntry(seenIds, sessionId, archived, includeArchived) ==
  sessionId \in seenIds \/ (archived /\ ~includeArchived)

\* storage.ts:351-368: one entry whose session id is known
listEntry(st, entry, sessionId, archivedSet, dir) ==
  LET archived == sessionId \in archivedSet
      skip == skipsEntry(st.seenIds, sessionId, archived, st.includeArchived)
      session == [id |-> sessionId, display |-> entry.display,
                  timestamp |-> entry.timestamp, project |-> entry.project,
                  archived |-> archived]
  IN  [st EXCEPT !.i = @ + 1,
                 !.seenIds = IF skip THEN @ ELSE @ \cup {sessionId},
                 !.sessions = IF skip THEN @ ELSE Append(@, session),
                 !.resolved = Append(@, Some(sessionId)),
                 !.archivedSeen = Append(@, archivedSet),
                 !.dirSeen = Append(@, dir)]

\* storage.ts:351-353: an entry that resolves to no session
skipEntry(st, archivedSet, dir) ==
  [st EXCEPT !.i = @ + 1,
             !.resolved = Append(@, Null),
             !.archivedSeen = Append(@, archivedSet),
             !.dirSeen = Append(@, dir)]

\* storage.ts:344-369: the loop runs on until an entry without sessionId
\* makes it await findSessionByTimestamp, or to its end
RECURSIVE runLoop(_, _)
runLoop(st, archivedSet) ==
  IF st.i > Len(st.entries) THEN [st EXCEPT !.pc = "stamping"]
  ELSE LET entry == st.entries[st.i] IN
       IF entry.sessionId = Null THEN [st EXCEPT !.pc = "resolving"]
       ELSE runLoop(listEntry(st, entry, Val(entry.sessionId), archivedSet, Null),
                    archivedSet)

\* storage.ts:340-349: the body starts on the entries of the history
sessionsBody(includeArchived, entries) ==
  /\ listing.pc = "idle"
  /\ listing' = runLoop([IdleListing EXCEPT !.includeArchived = includeArchived,
                                            !.entries = entries],
                        archivedSessions)
  /\ UNCHANGED notListing

\* storage.ts:347-348, 351-369: findSessionByTimestamp has answered for
\* entry i, and the loop runs on
sessionsResolved(dir) ==
  /\ listing.pc = "resolving"
  /\ LET entry == listing.entries[listing.i]
         sessionId == findSessionByTimestamp(dir, entry.timestamp)
     IN  listing' =
           IF sessionId = Null
           THEN runLoop(skipEntry(listing, archivedSessions, Some(dir)), archivedSessions)
           ELSE runLoop(listEntry(listing, entry, Val(sessionId), archivedSessions,
                                  Some(dir)),
                        archivedSessions)
  /\ UNCHANGED notListing

\* storage.ts:371-376: Promise.all has settled; sort and return
sessionsSorted ==
  /\ listing.pc = "stamping"
  /\ listing' = [listing EXCEPT !.pc = "done", !.result = sortSessions(listing.sessions)]
  /\ UNCHANGED notListing

\* storage.ts:217-221, 338-339: a call of getSessions made while an
\* execution with the same flag is pending gets the promise of that
\* execution. joined records the archived set at the first such call.
\* archiveSession and unarchiveSession change the set before their first
\* await (storage.ts:118, 123) and nothing in memory when their write
\* completes, so the set at a call made after they completed is the set
\* they left.
getSessionsJoin(includeArchived) ==
  /\ listing.pc \in {"resolving", "stamping"}
  /\ listing.includeArchived = includeArchived
  /\ listing.joined = Null
  /\ listing' = [listing EXCEPT !.joined = Some(archivedSessions)]
  /\ UNCHANGED notListing

InitListing ==
  listing = IdleListing

\* ------------------------------------------------------------------------
\* The file index (storage.ts:85, 153-155, 166-190, 269-305)
\* ------------------------------------------------------------------------

\* what readdir(projectsDir, {withFileTypes: true}) answers, in directory
\* order: two project directories and a file that is no directory
ProjectEntries ==
  << [name |-> "-a", isDirectory |-> TRUE],
     [name |-> "s2.jsonl", isDirectory |-> FALSE],
     [name |-> "-b", isDirectory |-> TRUE] >>

\* storage.ts:172 and 279: projectDirs.filter((d) => d.isDirectory())
directories ==
  LET kept == SelectSeq(ProjectEntries, LAMBDA d : d.isDirectory)
  IN  [k \in 1..Len(kept) |-> kept[k].name]

DirNames == {directories[k] : k \in 1..Len(directories)}

\* a file name: its stem and its extension
fileName(stem, ext) == [stem |-> stem, ext |-> ext]

\* join(projectPath, file)
joinPath(dir, file) == [dir |-> dir, file |-> file]

\* the transcripts that a writer may create while the program runs
Creatable ==
  { joinPath("-a", fileName("s1", ".jsonl")),
    joinPath("-b", fileName("s1", ".jsonl")),
    joinPath("-a", fileName("s2", ".jsonl")) }

\* the files that are in the project directories from the start
InitDisk == [dir \in DirNames |-> IF dir = "-b" THEN {fileName("notes", ".txt")} ELSE {}]

\* another process creates a transcript
createFile(path) ==
  /\ path.file \notin disk[path.dir]
  /\ disk' = [disk EXCEPT ![path.dir] = @ \cup {path.file}]
  /\ UNCHANGED <<fileIndex, finds, build, nSeeds>>
  /\ UNCHANGED notIndex

indexSet_only(index, pairs) ==
  [id \in {pr[1] : pr \in pairs} |-> (CHOOSE pr \in pairs : pr[1] = id)[2]]

\* fileIndex.set(sessionId, filePath) for each pair of a set of pairs with
\* distinct session ids
indexSet(index, pairs) ==
  LET ids == {pr[1] : pr \in pairs} IN
  [id \in DOMAIN index \cup ids |->
     IF id \in ids THEN (CHOOSE pr \in pairs : pr[1] = id)[2] ELSE index[id]]

\* storage.ts:153-155
addToFileIndex(sessionId, filePath) ==
  /\ nSeeds < MaxSeeds
  /\ nSeeds' = nSeeds + 1
  /\ fileIndex' = indexSet(fileIndex, {<<sessionId, filePath>>})
  /\ UNCHANGED <<disk, finds, build>>
  /\ UNCHANGED notIndex

\* the paths that callers of addToFileIndex pass for a session id
SeedPaths(sessionId) == {joinPath("-b", fileName(sessionId, ".jsonl"))}

\* `${sessionId}.jsonl`
targetFileOf(sessionId) == fileName(sessionId, ".jsonl")

\* A call of findSessionFile; the calls are numbered in the order in which
\* they are made. pc: "dirs" waits for readdir(projectsDir),
\* "files" for the readdir of each project directory in pending, "done" has
\* returned. results is what the callback of each directory returned.
\* History variables: scanned (the call went past the index), wrote (the
\* entry the call set) and seen (what readdir answered for each directory).
IdleFind ==
  [pc |-> "idle", sessionId |-> "", pending |-> {}, results |-> <<>>,
   returned |-> Null, scanned |-> FALSE, wrote |-> Null, seen |-> <<>>]

FindCalls == 1..MaxFinds

\* storage.ts:269-276, up to the await of readdir(projectsDir)
findSessionFile(c, sessionId) ==
  /\ finds[c].pc = "idle"
  /\ \A d \in FindCalls : d < c => finds[d].pc # "idle"
  /\ finds' =
       [finds EXCEPT ![c] =
          IF sessionId \in DOMAIN fileIndex
          THEN [IdleFind EXCEPT !.pc = "done", !.sessionId = sessionId,
                                !.returned = Some(fileIndex[sessionId])]
          ELSE [IdleFind EXCEPT !.pc = "dirs", !.sessionId = sessionId, !.scanned = TRUE]]
  /\ UNCHANGED <<disk, fileIndex, build, nSeeds>>
  /\ UNCHANGED notIndex

\* storage.ts:278-282: readdir(projectsDir) has answered, the directories
\* are read concurrently
findDirs(c) ==
  /\ finds[c].pc = "dirs"
  /\ finds' = [finds EXCEPT ![c].pc = "files", ![c].pending = DirNames]
  /\ UNCHANGED <<disk, fileIndex, build, nSeeds>>
  /\ UNCHANGED notIndex

\* storage.ts:283-292: readdir of one project directory has answered
findFiles(c, dir) ==
  /\ finds[c].pc = "files"
  /\ dir \in finds[c].pending
  /\ LET files == disk[dir]
         targetFile == targetFileOf(finds[c].sessionId)
         result == IF targetFile \in files THEN Some(joinPath(dir, targetFile)) ELSE Null
     IN  finds' = [finds EXCEPT ![c].pending = @ \ {dir},
                                ![c].results = @ @@ (dir :> result),
                                ![c].seen = @ @@ (dir :> files)]
  /\ UNCHANGED <<disk, fileIndex, build, nSeeds>>
  /\ UNCHANGED notIndex

\* storage.ts:295: results.find((r) => r !== null), in the order of directories
firstFound(results) ==
  LET found == {k \in 1..Len(directories) : results[directories[k]] # Null}
  IN  IF found = {} THEN Null
      ELSE results[directories[CHOOSE k \in found : \A j \in found : k <= j]]

\* storage.ts:295-304: every directory has answered
findSettle(c) ==
  /\ finds[c].pc = "files"
  /\ finds[c].pending = {}
  /\ LET filePath == firstFound(finds[c].results) IN
     IF filePath # Null
     THEN /\ fileIndex' = indexSet(fileIndex, {<<finds[c].sessionId, Val(filePath)>>})
          /\ finds' = [finds EXCEPT ![c].pc = "done", ![c].returned = filePath,
                                    ![c].wrote = filePath]
     ELSE /\ fileIndex' = fileIndex
          /\ finds' = [finds EXCEPT ![c].pc = "done", ![c].returned = Null]
  /\ UNCHANGED <<disk, build, nSeeds>>
  /\ UNCHANGED notIndex

\* The call of buildFileIndex made by loadStorage. History variables:
\* wrote, the entries the call set, and seen as for findSessionFile.
IdleBuild == [pc |-> "idle", pending |-> {}, wrote |-> {}, seen |-> <<>>]

\* storage.ts:166-170, up to the await of readdir(projectsDir)
buildFileIndex ==
  /\ build.pc = "idle"
  /\ build' = [build EXCEPT !.pc = "dirs"]
  /\ UNCHANGED <<disk, fileIndex, finds, nSeeds>>
  /\ UNCHANGED notIndex

\* storage.ts:170-175
buildDirs ==
  /\ build.pc = "dirs"
  /\ build' = [build EXCEPT !.pc = "files", !.pending = DirNames]
  /\ UNCHANGED <<disk, fileIndex, finds, nSeeds>>
  /\ UNCHANGED notIndex

\* storage.ts:176-183: readdir of one project directory has answered; the
\* call has returned when the last one has
buildFiles(dir) ==
  /\ build.pc = "files"
  /\ dir \in build.pending
  /\ LET files == disk[dir]
         pairs == {<<file.stem, joinPath(dir, file)>> :
                     file \in {f \in files : f.ext = ".jsonl"}}
     IN  /\ fileIndex' = indexSet(fileIndex, pairs)
         /\ build' = [build EXCEPT !.pending = @ \ {dir},
                                   !.pc = IF build.pending = {dir} THEN "done" ELSE "files",
                                   !.wrote = @ \cup pairs,
                                   !.seen = @ @@ (dir :> files)]
  /\ UNCHANGED <<disk, finds, nSeeds>>
  /\ UNCHANGED notIndex

InitIndex ==
  /\ disk = InitDisk
  /\ fileIndex = <<>>
  /\ finds = [c \in FindCalls |-> IdleFind]
  /\ build = IdleBuild
  /\ nSeeds = 0

\* ------------------------------------------------------------------------
\* The branch of the conversation that is shown (unnamed/part_002:25-63,
\* 203-214, 276-283)
\* ------------------------------------------------------------------------

\* the uuid of the message that arrives k-th, when it has one
Uuids == 1..MaxMessages
\* a uuid that no message of the session has
GoneUuid == 0

\* a message: uuid and parentUuid are Null when absent
messageWith(uuid, parentUuid) == [uuid |-> uuid, parentUuid |-> parentUuid]

\* part_002:31 and 40-42: childrenMap.get(uuid), in the order of the messages
childrenOf(msgs, uuid) == SelectSeq(msgs, LAMBDA m : m.parentUuid = Some(uuid))

\* part_002:33 and 38-39
rootsOf(msgs) == SelectSeq(msgs, LAMBDA m : m.parentUuid = Null)

defaultChild_first(children) == children[1]

\* part_002:59: children[children.length - 1]
defaultChild(children) == children[Len(children)]

\* part_002:56-59: the child the loop goes to next
nextChild(current, children, choices) ==
  LET chosen == IF current.uuid # Null /\ Val(current.uuid) \in DOMAIN choices
                THEN Some(choices[Val(current.uuid)]) ELSE Null
      found == {k \in 1..Len(children) : chosen # Null /\ children[k].uuid = chosen}
  IN  IF found # {}
      THEN children[CHOOSE k \in found : \A j \in found : k <= j]
      ELSE defaultChild(children)

\* part_002:52-60
RECURSIVE branchLoop(_, _, _, _)
branchLoop(msgs, choices, current, chain) ==
  LET pushed == Append(chain, current)
      children == IF current.uuid # Null THEN childrenOf(msgs, Val(current.uuid)) ELSE <<>>
  IN  IF children = <<>> THEN pushed
      ELSE branchLoop(msgs, choices, nextChild(current, children, choices), pushed)

\* a variant: without a root nothing is returned
buildBranch_emptyWithoutRoot(msgs, choices) ==
  IF rootsOf(msgs) = <<>> THEN <<>>
  ELSE branchLoop(msgs, choices, rootsOf(msgs)[1], <<>>)

\* part_002:25-63
buildBranch(msgs, choices) ==
  IF msgs = <<>> THEN <<>>
  ELSE IF rootsOf(msgs) = <<>> THEN msgs
  ELSE branchLoop(msgs, choices, rootsOf(msgs)[1], <<>>)

\* a message of the session arrives; the view builds the branch again
\* (part_002:206-214). A message without uuid is a root here.
messageArrives(hasUuid, parentUuid) ==
  /\ Len(allConversation) < MaxMessages
  /\ hasUuid \/ parentUuid = Null
  /\ LET uuid == IF hasUuid THEN Some(Len(allConversation) + 1) ELSE Null IN
     allConversation' = Append(allConversation, messageWith(uuid, parentUuid))
  /\ conversationMessages' = buildBranch(allConversation', branchChoices)
  /\ UNCHANGED <<branchChoices, nChoices>>
  /\ UNCHANGED notBranch

\* part_002:276-283: next.set(message.uuid, b.uuid), and the view builds the
\* branch again
chooseBranch(uuid, child) ==
  /\ nChoices < MaxChoices
  /\ nChoices' = nChoices + 1
  /\ branchChoices' = [u \in DOMAIN branchChoices \cup {uuid} |->
                         IF u = uuid THEN child ELSE branchChoices[u]]
  /\ conversationMessages' = buildBranch(allConversation, branchChoices')
  /\ UNCHANGED allConversation
  /\ UNCHANGED notBranch

InitBranch ==
  /\ allConversation = <<>>
  /\ branchChoices = <<>>
  /\ conversationMessages = <<>>
  /\ nChoices = 0

\* ------------------------------------------------------------------------
\* One execution of buildBranch, iteration by iteration, on messages whose
\* uuids need not be distinct (unnamed/part_002:25-63)
\* ------------------------------------------------------------------------

\* part_002:40-42: childrenMap.get(uuid), as positions in the messages
childPositions(msgs, uuid) ==
  SelectSeq([k \in 1..Len(msgs) |-> k], LAMBDA k : msgs[k].parentUuid = Some(uuid))

\* part_002:38-39: roots, as positions in the messages
rootPositions(msgs) ==
  SelectSeq([k \in 1..Len(msgs) |-> k], LAMBDA k : msgs[k].parentUuid = Null)

\* part_002:56-59: the position the loop goes to next
nextPosition(msgs, choices, current, children) ==
  LET uuid == msgs[current].uuid
      chosen == IF uuid # Null /\ Val(uuid) \in DOMAIN choices
                THEN Some(choices[Val(uuid)]) ELSE Null
      found == {j \in 1..Len(children) : chosen # Null /\ msgs[children[j]].uuid = chosen}
  IN  IF found # {}
      THEN children[CHOOSE j \in found : \A i \in found : j <= i]
      ELSE defaultChild(children)

\* pc: "loop" is at the head of the while loop with current set, "done" has
\* returned chain. chain holds positions in the messages.
IdleWalk == [pc |-> "idle", msgs |-> <<>>, choices |-> <<>>, current |-> 0, chain |-> <<>>]

\* part_002:25-50: up to the while loop
walkStart(msgs, choices) ==
  /\ walk.pc = "idle"
  /\ walk' =
       IF msgs = <<>> THEN [IdleWalk EXCEPT !.pc = "done"]
       ELSE IF rootPositions(msgs) = <<>>
       THEN [IdleWalk EXCEPT !.pc = "done", !.msgs = msgs, !.choices = choices,
                             !.chain = [k \in 1..Len(msgs) |-> k]]
       ELSE [IdleWalk EXCEPT !.pc = "loop", !.msgs = msgs, !.choices = choices,
                             !.current = rootPositions(msgs)[1]]
  /\ UNCHANGED notWalk

\* part_002:52-60: one iteration. The model follows the loop for one
\* iteration more than there are messages.
walkStep ==
  /\ walk.pc = "loop"
  /\ Len(walk.chain) <= Len(walk.msgs)
  /\ LET uuid == walk.msgs[walk.current].uuid
         children == IF uuid # Null THEN childPositions(walk.msgs, Val(uuid)) ELSE <<>>
     IN  walk' =
           IF children = <<>>
           THEN [walk EXCEPT !.pc = "done", !.chain = Append(@, walk.current)]
           ELSE [walk EXCEPT !.chain = Append(@, walk.current),
                             !.current = nextPosition(walk.msgs, walk.choices,
                                                      walk.current, children)]
  /\ UNCHANGED notWalk

InitWalk == walk = IdleWalk

\* ------------------------------------------------------------------------
\* The file handles of getConversationStream and getSessionTokens
\* (storage.ts:434-493, 500-563): the control flow of an execution around
\* its handle, with every await able to fail
\* ------------------------------------------------------------------------

ReaderFns == {"getConversationStream", "getSessionTokens"}

\* pc: "find" awaits findSessionFile, "stat" awaits stat, "open" awaits
\* open, "reading" consumes the stream, "closing" awaits fileHandle.close()
\* in the finally block, "settled" has returned. fileHandle is the local
\* variable (set or not). isOpen is a history variable: the handle that the
\* execution opened has not been closed.
IdleReader ==
  [fn |-> "none", pc |-> "idle", fileHandle |-> FALSE, isOpen |-> FALSE,
   thrown |-> FALSE]

ReaderCalls == 1..MaxReaders

\* a variant: the finally block closes the handle only when nothing was thrown
afterTry_leakOnError(r, thrown) ==
  [r EXCEPT !.pc = IF r.fileHandle /\ ~thrown THEN "closing" ELSE "settled",
            !.thrown = thrown]

\* storage.ts:488-492 and 558-562: the finally block, reached by a return
\* or by the catch block; it awaits close() when fileHandle is set
afterTry(r, thrown) ==
  [r EXCEPT !.pc = IF r.fileHandle THEN "closing" ELSE "settled",
            !.thrown = thrown]

\* storage.ts:434 and 500: the call is made
readerStart(c, fn) ==
  /\ readers[c].pc = "idle"
  /\ \A d \in ReaderCalls : d < c => readers[d].pc # "idle"
  /\ readers' = [readers EXCEPT ![c] = [IdleReader EXCEPT !.fn = fn, !.pc = "find"]]
  /\ UNCHANGED notHandles

\* storage.ts:434-438 and 500-504: findSessionFile has answered; without a
\* file the call returns before the try block
readerFound(c, found) ==
  /\ readers[c].pc = "find"
  /\ readers' = [readers EXCEPT ![c].pc = IF found THEN "stat" ELSE "settled"]
  /\ UNCHANGED notHandles

\* storage.ts:444-449 and 508-515: stat has answered or thrown; "return" is
\* the early return (offset at the end of the file, token cache hit)
readerStat(c, outcome) ==
  /\ readers[c].pc = "stat"
  /\ readers' =
       [readers EXCEPT ![c] =
          CASE outcome = "throws" -> afterTry(readers[c], TRUE)
            [] outcome = "return" -> afterTry(readers[c], FALSE)
            [] OTHER -> [readers[c] EXCEPT !.pc = "open"]]
  /\ UNCHANGED notHandles

\* storage.ts:451 and 517: open has answered or thrown
readerOpen(c, opened) ==
  /\ readers[c].pc = "open"
  /\ readers' =
       [readers EXCEPT ![c] =
          IF opened
          THEN [readers[c] EXCEPT !.pc = "reading", !.fileHandle = TRUE, !.isOpen = TRUE]
          ELSE afterTry(readers[c], TRUE)]
  /\ UNCHANGED notHandles

\* storage.ts:452-485 and 518-555: the stream has been consumed (to its
\* end, or to the break at a line that does not parse) or has thrown
readerRead(c, thrown) ==
  /\ readers[c].pc = "reading"
  /\ readers' = [readers EXCEPT ![c] = afterTry(readers[c], thrown)]
  /\ UNCHANGED notHandles

\* storage.ts:490 and 560: close() has answered, the call settles
readerClose(c) ==
  /\ readers[c].pc = "closing"
  /\ readers' = [readers EXCEPT ![c].pc = "settled", ![c].isOpen = FALSE]
  /\ UNCHANGED notHandles

InitHandles == readers = [c \in ReaderCalls |-> IdleReader]

\* ------------------------------------------------------------------------
\* The session view and its conversation stream (part_002:92-160)
\* ------------------------------------------------------------------------

\* part_002:82-84
MAX_RETRIES == 10
BASE_RETRY_DELAY_MS == 1000
MAX_RETRY_DELAY_MS == 30000

\* Math.pow(2, n)
RECURSIVE pow2(_)
pow2(n) == IF n = 0 THEN 1 ELSE 2 * pow2(n - 1)

\* The component: sessionId is the prop of the latest render whose effect
\* ran, mounted, offsetRef, retryCount, eventSourceRef and retryTimeoutRef
\* are its refs, messages its state (each message by the line it comes from
\* and its uuid, Null when it has none). sources are the EventSources that
\* are open (id: the number of the connection, session: the session of its
\* URL, sent: the last message sent on it), timers the timeouts that are
\* pending. effectOn: the effect has run and its cleanup has not.
\* connected: eventSourceRef holds an open EventSource. routeOffset is the
\* offset the transport keeps for the connection. History variables:
\* connects counts the connections made, submitted is the offset the latest
\* one was opened with, receivedAtConnect the messages held at that time,
\* scheduled counts the timeouts set, failed is the source of the latest
\* error, failures counts the errors since the effect ran or a "messages"
\* event arrived.
IdleView ==
  [connected |-> FALSE, offsetRef |-> 0, messages |-> <<>>, routeOffset |-> 0,
   connects |-> 0, submitted |-> 0, receivedAtConnect |-> {},
   sessionId |-> Null, mounted |-> TRUE, effectOn |-> FALSE, retryCount |-> 0,
   sources |-> <<>>, eventSourceRef |-> Null, timers |-> {},
   retryTimeoutRef |-> Null, scheduled |-> 0, failed |-> Null, failures |-> 0]

\* a variant: the view advances its offset to the offset the read reached
advanceOffset_toNextOffset(offsetRef, unique, nextOffset) == nextOffset

\* part_002:131
advanceOffset(offsetRef, unique, nextOffset) == offsetRef + Len(unique)

\* part_002:120-134: the listener of the "messages" event. A message
\* without uuid is in no set of existing ids (filter(Boolean)) and
\* existingIds.has(undefined) is false.
onMessages(v, newMessages, nextOffset) ==
  LET existingIds == {v.messages[i].uuid : i \in 1..Len(v.messages)} \ {Null}
      notExisting(m) == m.uuid \notin existingIds
      unique == SelectSeq(newMessages, notExisting)
      w == [v EXCEPT !.retryCount = 0, !.failures = 0]
  IN  IF unique = <<>> THEN w
      ELSE [w EXCEPT !.offsetRef = advanceOffset(v.offsetRef, unique, nextOffset),
                     !.messages = v.messages \o unique]

\* EventSource.close() on the source numbered id (no effect on a source
\* that is closed already)
closeSource(v, id) ==
  LET others(src) == src.id # id
  IN  [v EXCEPT !.sources = SelectSeq(@, others),
                !.connected = IF v.eventSourceRef = Some(id) THEN FALSE ELSE @]

\* part_002:107-118: connect() of the render for sessionId
connect(v, sessionId) ==
  IF ~v.mounted THEN v
  ELSE LET closed == IF v.eventSourceRef # Null
                     THEN closeSource(v, Val(v.eventSourceRef)) ELSE v
           id == v.connects + 1
       IN  [closed EXCEPT
              !.sources = Append(@, [id |-> id, session |-> sessionId, sent |-> 0]),
              !.eventSourceRef = Some(id),
              !.connected = TRUE,
              !.routeOffset = v.offsetRef,
              !.connects = id,
              !.submitted = v.offsetRef,
              !.receivedAtConnect = {v.messages[i].line : i \in 1..Len(v.messages)}]

\* part_002:152-160: the effect of a render for sessionId
mountEffect(sessionId) ==
  /\ ~view.effectOn
  /\ view' = connect([view EXCEPT !.sessionId = Some(sessionId),
                                  !.effectOn = TRUE,
                                  !.mounted = TRUE,
                                  !.messages = <<>>,
                                  !.offsetRef = 0,
                                  !.retryCount = 0,
                                  !.failures = 0],
                     sessionId)
  /\ UNCHANGED notView

\* part_002:162-170: the cleanup of the effect, when the component is
\* unmounted or rendered for another session
cleanup ==
  /\ view.effectOn
  /\ LET cleared == [view EXCEPT !.mounted = FALSE,
                                 !.effectOn = FALSE,
                                 !.timers = {t \in @ : Some(t.id) # view.retryTimeoutRef}]
     IN  view' = IF view.eventSourceRef # Null
                 THEN closeSource(cleared, Val(view.eventSourceRef))
                 ELSE cleared
  /\ UNCHANGED notView

\* a variant: the delay doubles without limit
retryDelay_uncapped(retryCount) == BASE_RETRY_DELAY_MS * pow2(retryCount)

\* part_002:145
retryDelay(retryCount) ==
  LET d == BASE_RETRY_DELAY_MS * pow2(retryCount)
  IN  IF d < MAX_RETRY_DELAY_MS THEN d ELSE MAX_RETRY_DELAY_MS

\* part_002:136-149: the error handler of an open source (a closed
\* EventSource fires no event)
onerror(src) ==
  /\ LET closed == [closeSource(view, src.id) EXCEPT !.failed = Some(src.id),
                                                     !.failures = @ + 1]
     IN  view' =
           IF ~view.mounted \/ view.retryCount >= MAX_RETRIES THEN closed
           ELSE [closed EXCEPT
                   !.retryCount = @ + 1,
                   !.scheduled = @ + 1,
                   !.retryTimeoutRef = Some(view.scheduled + 1),
                   !.timers = @ \cup {[id |-> view.scheduled + 1,
                                       delay |-> retryDelay(view.retryCount),
                                       session |-> src.session]}]
  /\ UNCHANGED notView

\* part_002:147: the timeout t runs out and calls the connect() of the
\* render that set it
retryFires(t) ==
  /\ t \in view.timers
  /\ view' = connect([view EXCEPT !.timers = @ \ {t}], t.session)
  /\ UNCHANGED notView

\* The messages of a session as the stream sends them, in the order of
\* their lines: two lines carry the same uuid and one carries none
\* (storage.ts:25, uuid?: string).
Sent ==
  << [line |-> 1, type |-> "user", uuid |-> Some("a")],
     [line |-> 2, type |-> "assistant", uuid |-> Null],
     [line |-> 3, type |-> "assistant", uuid |-> Some("a")] >>

\* part_002:120-134: the open source src delivers a "messages" event with
\* the messages from..to, which come after those it has sent before
messagesEvent(src, from, to) ==
  /\ src.sent < from /\ from <= to /\ to <= Len(Sent)
  /\ LET sentTo(x) == IF x.id = src.id THEN [x EXCEPT !.sent = to] ELSE x
         marked == [view EXCEPT
                      !.sources = [k \in 1..Len(@) |-> sentTo(@[k])]]
     IN  view' = onMessages(marked, SubSeq(Sent, from, to), 0)
  /\ UNCHANGED notView

\* every line of the transcript of the model carries a uuid of its own
withUuid(m) == [line |-> m.line, type |-> m.type, uuid |-> Some(m.line)]

\* The transport of the stream: it reads the transcript from the offset of
\* the connection with getConversationStream (storage.ts:444-485, the file
\* taken as it is now), keeps nextOffset for its next read and sends the
\* messages, if any, as one "messages" event, which the view handles.
routeSend ==
  /\ view.connected
  /\ LET fileSize == fileSizeOf(transcript)
         fromOffset == view.routeOffset
         rl == readLines(transcript, fromOffset)
         r == streamLoop(rl, 1, <<>>, 0)
         nextOffset == IF fromOffset >= fileSize THEN fromOffset
                       ELSE nextOffsetOf(fromOffset, r.bytesConsumed, fileSize)
         read == IF fromOffset >= fileSize THEN <<>> ELSE r.messages
         msgs == [k \in 1..Len(read) |-> withUuid(read[k])]
     IN  /\ nextOffset # fromOffset
         /\ view' = [onMessages(view, msgs, nextOffset) EXCEPT !.routeOffset = nextOffset]
  /\ UNCHANGED notView

InitView == view = IdleView

\* ------------------------------------------------------------------------
\* The archived-sessions sidecar (storage.ts:94-125): archiveSession and
\* unarchiveSession with their write
\* ------------------------------------------------------------------------

\* file: the ids in the sidecar file, Null while it does not exist.
\* writes: the calls of writeFile made so far, in call order, each with the
\* content it was given and whether it has completed.
IdleSidecar == [file |-> Null, writes |-> <<>>]

\* the variables a call of archiveSession or unarchiveSession leaves alone
notArchive ==
  <<now, ticks, historyLog, historyCache, historyCacheTime, pendingRequests, calls,
    nCalls, hist, watcherVars, fileVars, streamVars, tokenVars, listingVars, indexVars,
    branchVars, walkVars, handleVars, viewVars, searchVars, encodeVars, listVars,
    exportVars>>

\* a variant: a write takes effect only after every earlier write completed
mayComplete_inCallOrder(writes, w) == \A v \in 1..(w - 1) : writes[v].done

\* storage.ts:110-114: the calls of writeFile are not ordered with respect
\* to each other, any write in flight may be the next to complete
mayComplete(writes, w) == TRUE

\* storage.ts:109-115, up to the await: JSON.stringify([...archivedSessions])
\* is evaluated and writeFile is called with it
saveArchivedSessions(set) ==
  sidecar' = [sidecar EXCEPT !.writes = Append(@, [content |-> set, done |-> FALSE])]

\* storage.ts:117-120, up to the await of the write
archiveSessionCall(id) ==
  /\ Len(sidecar.writes) < MaxWrites
  /\ archivedSessions' = archivedSessions \cup {id}
  /\ saveArchivedSessions(archivedSessions \cup {id})
  /\ UNCHANGED notArchive

\* storage.ts:122-125, up to the await of the write
unarchiveSessionCall(id) ==
  /\ Len(sidecar.writes) < MaxWrites
  /\ archivedSessions' = archivedSessions \ {id}
  /\ saveArchivedSessions(archivedSessions \ {id})
  /\ UNCHANGED notArchive

\* storage.ts:110-114: a writeFile completes, the file holds its content
\* and the call that awaits it returns
writeFileDone(w) ==
  /\ w \in 1..Len(sidecar.writes)
  /\ ~sidecar.writes[w].done
  /\ mayComplete(sidecar.writes, w)
  /\ sidecar' = [file |-> Some(sidecar.writes[w].content),
                 writes |-> [sidecar.writes EXCEPT ![w].done = TRUE]]
  /\ UNCHANGED notSidecar

InitSidecar == sidecar = IdleSidecar

\* ------------------------------------------------------------------------
\* searchSessions (storage.ts:567-645). Texts and queries are sequences of
\* characters. The files do not change while a search runs.
\* ------------------------------------------------------------------------

\* String.prototype.toLowerCase on the characters of the model
lowerChar(c) ==
  CASE c = "H" -> "h"
    [] c = "I" -> "i"
    [] OTHER -> c

toLowerCase(s) == [k \in 1..Len(s) |-> lowerChar(s[k])]

\* String.prototype.includes
includes(text, q) ==
  \E at \in 0..(Len(text) - Len(q)) :
    \A k \in 1..Len(q) : text[at + k] = q[k]

\* a variant: the text is compared as it is written
textMatches_caseSensitive(text, lowerQuery) == includes(text, lowerQuery)

\* storage.ts:618
textMatches(text, lowerQuery) == includes(toLowerCase(text), lowerQuery)

\* The lines a transcript is made of here: type is the type field of the
\* object the line parses to ("bad": JSON.parse throws), text what
\* extractTextContent makes of it.
SearchLines ==
  { [type |-> "user", text |-> <<"H", "i", "!">>],
    [type |-> "assistant", text |-> <<"h", "i">>],
    [type |-> "summary", text |-> <<"h", "i", "!">>],
    [type |-> "bad", text |-> <<>>] }

Queries == { <<"h">>, <<"h", "i">>, <<"h", "I", "!">> }

\* the iteration order of fileIndex.entries(): insertion order (the
\* sessions that are indexed were indexed in this order)
IndexOrder == <<"s1", "s2">>

isIndexed(id) == id \in searchIndex

indexEntries == SelectSeq(IndexOrder, isIndexed)

\* what getSessions may have returned: for each listed session its
\* timestamp
Listings == [SessionIds -> {Null} \cup {Some(t) : t \in 1..2}]

\* a variant: the matches of a file are not capped
matchesFull_never(matches) == FALSE

\* storage.ts:613
matchesFull(matches) == Len(matches) >= 3

\* storage.ts:612-627: the matches of one file, each by the line it is on
RECURSIVE matchLoop(_, _, _, _)
matchLoop(lines, i, lowerQuery, matches) ==
  IF i > Len(lines) \/ matchesFull(matches) THEN matches
  ELSE LET l == lines[i] IN
       IF l.type = "bad" \/ l.type \notin {"user", "assistant"}
       THEN matchLoop(lines, i + 1, lowerQuery, matches)
       ELSE IF textMatches(l.text, lowerQuery)
            THEN matchLoop(lines, i + 1, lowerQuery,
                           Append(matches, [line |-> i, role |-> l.type]))
            ELSE matchLoop(lines, i + 1, lowerQuery, matches)

\* storage.ts:601-641: the loop over the file index
RECURSIVE resultLoop(_, _, _, _, _)
resultLoop(i, sessions, lowerQuery, maxResults, results) ==
  IF i > Len(indexEntries) \/ Len(results) >= maxResults THEN results
  ELSE LET sessionId == indexEntries[i]
           matches == matchLoop(sessionFiles[sessionId], 1, lowerQuery, <<>>)
       IN  IF sessions[sessionId] = Null \/ matches = <<>>
           THEN resultLoop(i + 1, sessions, lowerQuery, maxResults, results)
           ELSE resultLoop(i + 1, sessions, lowerQuery, maxResults,
                           Append(results, [sessionId |-> sessionId,
                                            timestamp |-> Val(sessions[sessionId]),
                                            matches |-> matches]))

\* storage.ts:594
tooShort(query) == query = <<>> \/ Len(query) < 2

\* storage.ts:590-645
searchResults(query, maxResults, sessions) ==
  IF tooShort(query) THEN <<>>
  ELSE sortSessions(resultLoop(1, sessions, toLowerCase(query), maxResults, <<>>))

IdleSearch ==
  [pc |-> "idle", query |-> <<>>, maxResults |-> 0, sessions |-> [id \in SessionIds |-> Null],
   results |-> <<>>]

\* storage.ts:153-155, 179: the transcript of a session is found by the
\* scan or added by the watcher
indexTranscript(id) ==
  /\ search.pc = "idle"
  /\ id \notin searchIndex
  /\ searchIndex' = searchIndex \cup {id}
  /\ UNCHANGED <<sessionFiles, search>>
  /\ UNCHANGED notSearch

\* a writer appends a line to the transcript of an indexed session
appendSearchLine(id, line) ==
  /\ search.pc = "idle"
  /\ id \in searchIndex
  /\ Len(sessionFiles["s1"]) + Len(sessionFiles["s2"]) < MaxSearchLines
  /\ sessionFiles' = [sessionFiles EXCEPT ![id] = Append(@, line)]
  /\ UNCHANGED <<searchIndex, search>>
  /\ UNCHANGED notSearch

\* storage.ts:590-645: a call of searchSessions, to its return
searchSessions(query, maxResults, sessions) ==
  /\ search.pc = "idle"
  /\ search' = [pc |-> "done", query |-> query, maxResults |-> maxResults,
                sessions |-> sessions,
                results |-> searchResults(query, maxResults, sessions)]
  /\ UNCHANGED <<searchIndex, sessionFiles>>
  /\ UNCHANGED notSearch

InitSearch ==
  /\ searchIndex = {}
  /\ sessionFiles = [id \in SessionIds |-> <<>>]
  /\ search = IdleSearch

\* ------------------------------------------------------------------------
\* encodeProjectPath applied to the paths of up to MaxPathLen characters
\* ------------------------------------------------------------------------

PathChars == {"/", ".", "-", "a"}

\* the next character of the path is given
pathChar(c) ==
  /\ encoding.dirName = Null
  /\ Len(encoding.path) < MaxPathLen
  /\ encoding' = [encoding EXCEPT !.path = Append(@, c)]
  /\ UNCHANGED notEncode

\* storage.ts:157-159: the path is encoded
encodePath ==
  /\ encoding.dirName = Null
  /\ encoding' = [encoding EXCEPT !.dirName = Some(encodeProjectPath(encoding.path))]
  /\ UNCHANGED notEncode

InitEncode == encoding = [path |-> <<>>, dirName |-> Null]

\* ------------------------------------------------------------------------
\* The search box of the session list (session-list.tsx:19-50, 155-185)
\* ------------------------------------------------------------------------

\* the texts typed into the search box, as sequences of characters
ListQueries == { <<>>, <<"a", "b">>, <<"a", "b", "c">>, <<"a", "b", "c", "d">> }

\* search, searchResults, searching are the state of the component and
\* debounceRef its ref; timers are the timeouts that are pending and
\* fetches the requests that are in flight, each with the query it was made
\* for. searchResults holds, with the data, the query of the request that
\* answered it. typed counts the changes of the text. The effect has run
\* for the empty text of the first render.
IdleList ==
  [search |-> <<>>, searchResults |-> Null, searching |-> FALSE,
   debounceRef |-> Null, timers |-> {}, fetches |-> {}, typed |-> 0]

\* session-list.tsx:28-32
shortQuery(l) == [l EXCEPT !.searchResults = Null, !.searching = FALSE]

\* session-list.tsx:26-46: doSearch(query), up to the end of the call; id
\* numbers the timeout it sets
doSearch(l, query, id) ==
  LET cleared == [l EXCEPT !.timers = {t \in @ : Some(t.id) # l.debounceRef}]
  IN  IF Len(query) < 3 THEN shortQuery(cleared)
      ELSE [cleared EXCEPT !.searching = TRUE,
                           !.timers = @ \cup {[id |-> id, query |-> query]},
                           !.debounceRef = Some(id)]

\* session-list.tsx:48-50, 103: the text of the box changes and the effect
\* calls doSearch with it
setSearch(query) ==
  /\ list.typed < MaxTyped
  /\ query # list.search
  /\ list' = doSearch([list EXCEPT !.search = query, !.typed = @ + 1],
                      query, list.typed + 1)
  /\ UNCHANGED notList

\* session-list.tsx:34-35: the timeout runs out and the request is made
debounceFires(t) ==
  /\ t \in list.timers
  /\ list' = [list EXCEPT !.timers = @ \ {t}, !.fetches = @ \cup {t}]
  /\ UNCHANGED notList

\* session-list.tsx:36-40: the request f is answered
fetchResolves(f) ==
  /\ f \in list.fetches
  /\ list' = [list EXCEPT !.fetches = @ \ {f},
                          !.searchResults = Some([query |-> f.query, data |-> "results"]),
                          !.searching = FALSE]
  /\ UNCHANGED notList

\* session-list.tsx:41-44: the request f fails
fetchRejects(f) ==
  /\ f \in list.fetches
  /\ list' = [list EXCEPT !.fetches = @ \ {f},
                          !.searchResults = Some([query |-> f.query, data |-> "empty"]),
                          !.searching = FALSE]
  /\ UNCHANGED notList

InitList == list = IdleList

\* ------------------------------------------------------------------------
\* conversationToMarkdown (conversation-to-markdown.ts). A string is the
\* sequence of its pieces.
\* ------------------------------------------------------------------------

Header == "# Conversation"
Separator == "\n\n---\n\n"
BlankLine == "\n\n"
\* the line of three backquotes that opens or closes a block of code
Fence == "fence"
\* a span of text that sanitizeText removes
Tagged == "<system-reminder>x</system-reminder>"

\* sanitizeText of ../utils, by what part_003:138-162 expects of it: the
\* tagged spans are taken out of the text, the rest stays
sanitizeText(text) ==
  LET stays(piece) == piece # Tagged
  IN  SelectSeq(text, stays)

\* Array.prototype.join
RECURSIVE join(_, _)
join(parts, sep) ==
  IF parts = <<>> THEN <<>>
  ELSE IF Len(parts) = 1 THEN parts[1]
  ELSE parts[1] \o <<sep>> \o join(Tail(parts), sep)

\* String.prototype.trim() leaves nothing
trimsToNothing(string) ==
  \A k \in 1..Len(string) : string[k] \in {BlankLine, " ", "\n"}

\* a string, or the value of an absent field, that is truthy
truthy(string) == string # Null /\ Val(string) # <<>>

\* conversation-to-markdown.ts:4-12 (a block without input)
formatToolUse(block) ==
  <<"**[Tool: ", IF truthy(block.name) THEN Val(block.name)[1] ELSE "Unknown Tool", "]**\n">>

\* a variant: the result of a tool is shown whether it is an error or not
formatContentBlock_allResults(block) ==
  CASE block.type = "text" ->
         IF truthy(block.text) THEN Some(sanitizeText(Val(block.text))) ELSE Null
    [] block.type = "thinking" ->
         IF truthy(block.thinking)
         THEN Some(<<"<details>\n<summary>Thinking...</summary>\n\n">>
                   \o Val(block.thinking) \o <<"\n\n</details>">>)
         ELSE Null
    [] block.type = "tool_use" -> Some(formatToolUse(block))
    [] block.type = "tool_result" ->
         IF truthy(block.content)
         THEN Some(<<"**[Error]**\n", Fence>> \o Val(block.content) \o <<Fence>>)
         ELSE Null
    [] OTHER -> Null

\* conversation-to-markdown.ts:48-72: the string a block is shown as, Null
\* for none
formatContentBlock(block) ==
  CASE block.type = "text" ->
         IF truthy(block.text) THEN Some(sanitizeText(Val(block.text))) ELSE Null
    [] block.type = "thinking" ->
         IF truthy(block.thinking)
         THEN Some(<<"<details>\n<summary>Thinking...</summary>\n\n">>
                   \o Val(block.thinking) \o <<"\n\n</details>">>)
         ELSE Null
    [] block.type = "tool_use" -> Some(formatToolUse(block))
    [] block.type = "tool_result" ->
         IF block.is_error /\ truthy(block.content)
         THEN Some(<<"**[Error]**\n", Fence>> \o Val(block.content) \o <<Fence>>)
         ELSE Null
    [] OTHER -> Null

\* conversation-to-markdown.ts:92-98: the strings of the blocks that have one
RECURSIVE formatBlocks(_, _, _)
formatBlocks(blocks, k, parts) ==
  IF k > Len(blocks) THEN parts
  ELSE LET formatted == formatContentBlock(blocks[k])
       IN  formatBlocks(blocks, k + 1,
                        IF truthy(formatted) THEN Append(parts, Val(formatted)) ELSE parts)

\* conversation-to-markdown.ts:89-100: formattedContent for a content that
\* is a string ([string |-> ...]) or an array of blocks ([blocks |-> ...])
formattedContentOf(content) ==
  IF "string" \in DOMAIN content THEN sanitizeText(content.string)
  ELSE join(formatBlocks(content.blocks, 1, <<>>), BlankLine)

\* the content is falsy: the message has no message field, or its content
\* is the empty string (an array, even an empty one, is truthy)
noContent(message) ==
  \/ message.content = Null
  \/ ("string" \in DOMAIN Val(message.content) /\ Val(message.content).string = <<>>)

\* conversation-to-markdown.ts:75-107: the section of a message, Null for
\* none
formatMessage(message) ==
  IF message.type \notin {"user", "assistant"} THEN Null
  ELSE IF noContent(message) THEN Null
  ELSE LET role == IF message.type = "user" THEN "User" ELSE "Assistant"
           formattedContent == formattedContentOf(Val(message.content))
       IN  IF trimsToNothing(formattedContent) THEN Null
           ELSE Some(<<"## ", role, BlankLine>> \o formattedContent)

\* conversation-to-markdown.ts:116-121
RECURSIVE formatMessages(_, _, _)
formatMessages(messages, k, parts) ==
  IF k > Len(messages) THEN parts
  ELSE LET formatted == formatMessage(messages[k])
       IN  formatMessages(messages, k + 1,
                          IF truthy(formatted) THEN Append(parts, Val(formatted)) ELSE parts)

\* conversation-to-markdown.ts:109-124
conversationToMarkdown(messages) ==
  LET conversational(m) == m.type \in {"user", "assistant"}
      kept == SelectSeq(messages, conversational)
  IN  join(formatMessages(kept, 1, <<<<Header>>>>), Separator)

\* blocks of the four types, with and without what each is shown by
textBlock(text) ==
  [type |-> "text", text |-> text, thinking |-> Null, name |-> Null,
   content |-> Null, is_error |-> FALSE]
thinkingBlock(thinking) ==
  [type |-> "thinking", text |-> Null, thinking |-> thinking, name |-> Null,
   content |-> Null, is_error |-> FALSE]
toolUseBlock(name) ==
  [type |-> "tool_use", text |-> Null, thinking |-> Null, name |-> name,
   content |-> Null, is_error |-> FALSE]
toolResultBlock(content, is_error) ==
  [type |-> "tool_result", text |-> Null, thinking |-> Null, name |-> Null,
   content |-> content, is_error |-> is_error]

\* the messages a conversation to export is made of; content is Null for a
\* message without message field
ExportMessages ==
  { [type |-> "summary", content |-> Null],
    [type |-> "summary", content |-> Some([string |-> <<"Hi">>])],
    [type |-> "file-history-snapshot", content |-> Null],
    [type |-> "user", content |-> Null],
    [type |-> "user", content |-> Some([string |-> <<>>])],
    [type |-> "user", content |-> Some([string |-> <<"Hi">>])],
    [type |-> "assistant", content |-> Some([string |-> <<Tagged>>])],
    [type |-> "assistant", content |-> Some([blocks |-> <<>>])],
    [type |-> "assistant",
     content |-> Some([blocks |-> <<toolResultBlock(Some(<<"ok">>), FALSE)>>])],
    [type |-> "assistant",
     content |-> Some([blocks |-> <<textBlock(Some(<<"Hi", Tagged>>)),
                                    toolResultBlock(Some(<<"ok">>), FALSE),
                                    thinkingBlock(Some(<<"hm">>))>>])],
    [type |-> "assistant",
     content |-> Some([blocks |-> <<thinkingBlock(Some(<<>>)), textBlock(Null),
                                    toolResultBlock(Some(<<>>), TRUE)>>])],
    [type |-> "assistant", content |-> Some([blocks |-> <<toolUseBlock(Some(<<"Bash">>))>>])],
    [type |-> "user",
     content |-> Some([blocks |-> <<toolResultBlock(Some(<<"boom">>), TRUE)>>])] }

\* the next message of the conversation is given
exportMessage(message) ==
  /\ markdown.output = Null
  /\ Len(markdown.messages) < MaxExport
  /\ markdown' = [markdown EXCEPT !.messages = Append(@, message)]
  /\ UNCHANGED notExport

\* conversation-to-markdown.ts:109-124: the conversation is exported
exportMarkdown ==
  /\ markdown.output = Null
  /\ markdown' = [markdown EXCEPT !.output = Some(conversationToMarkdown(markdown.messages))]
  /\ UNCHANGED notExport

InitExport == markdown = [messages |-> <<>>, output |-> Null]

\* ------------------------------------------------------------------------
\* Specifications
\* ------------------------------------------------------------------------

\* the state after the module is loaded and the watcher is constructed
Init ==
  InitCore /\ InitWatcher /\ InitFile /\ InitStream /\ InitTokens /\ InitListing
  /\ InitIndex
  /\ InitBranch
  /\ InitWalk
  /\ InitHandles
  /\ InitView
  /\ InitSidecar
  /\ InitSearch
  /\ InitEncode
  /\ InitList
  /\ InitExport

\* the storage core: history cache, request coalescer, listings
Next ==
  \/ \E ia \in BOOLEAN : getSessions(ia)
  \/ getProjects
  \/ \E c \in CallIds : readHistoryFile(c)
  \/ \E c \in CallIds : loadHistoryCache(c)
  \/ \E c \in CallIds : fnReturn(c)
  \/ \E c \in CallIds : dedupeSettle(c)
  \/ invalidateHistoryCache
  \/ \E d \in TickSteps : Tick(d)
  \/ \E line \in HistoryLines : appendHistory(line)

Spec == Init /\ [][Next]_vars

\* the history log with lines that are not JSON, and its readers
NextHistory ==
  \/ \E ia \in BOOLEAN : getSessions(ia)
  \/ getProjects
  \/ \E c \in CallIds : readHistoryFile(c)
  \/ \E c \in CallIds : loadHistoryCache(c)
  \/ \E c \in CallIds : fnReturn(c)
  \/ \E c \in CallIds : dedupeSettle(c)
  \/ \E d \in TickSteps : Tick(d)
  \/ \E line \in HistoryLines \cup {BadHistoryLine} : appendHistory(line)

SpecHistory == Init /\ [][NextHistory]_vars

\* the change watcher
NextWatcher ==
  \/ start
  \/ stop
  \/ \E path \in Paths : handleChange(path)
  \/ \E t \in timers : timerFire(t)
  \/ tickWatcher

\* the runtime keeps time moving and runs every due timer
FairWatcher ==
  /\ WF_vars(tickWatcher)
  /\ \A path \in Paths : WF_vars(\E t \in timersOf(path) : timerFire(t))

SpecWatcher == Init /\ [][NextWatcher]_vars /\ FairWatcher

\* the offsets a client asks for: the start of the file, the nextOffset it
\* was given last, the end of the file as the latest read saw it
ClientOffsets == {0, stream.nextOffset, stream.sizeAtRead}

\* a session transcript, its writer and its readers
NextStream ==
  \/ \E line \in StreamLines : appendLine(line)
  \/ \E line \in PartialLines : \E written \in 1..line.bytes : appendPartial(line, written)
  \/ flushLine
  \/ \E fromOffset \in ClientOffsets : getConversationStream(fromOffset)
  \/ streamStat
  \/ streamRead
  \/ getConversation

SpecStream == Init /\ [][NextStream]_vars

\* a consumer that tails the transcript while a writer appends whole lines
NextTail ==
  \/ \E line \in StreamLines : appendLine(line)
  \/ tailNext
  \/ streamStat
  \/ streamRead

SpecTail == Init /\ [][NextTail]_vars

\* the consumer keeps calling, and stat and the stream answer
FairTail == WF_vars(tailNext) /\ WF_vars(streamStat) /\ WF_vars(streamRead)

SpecTailFair == SpecTail /\ FairTail

\* incremental reads from any offset a client may hold, of a session whose
\* file may be missing and with I/O that may fail
NextOffsets ==
  \/ \E line \in StreamLines : appendLine(line)
  \/ \E fromOffset \in ClientOffsets : getConversationStream(fromOffset)
  \/ streamStat
  \/ streamRead
  \/ streamNotFound
  \/ streamFails

SpecOffsets == Init /\ [][NextOffsets]_vars

\* a session transcript, its writer and getSessionTokens
NextTokens ==
  \/ \E line \in TokenLines : appendLine(line)
  \/ \E line \in TokenLines : appendLineSameMs(line)
  \/ \E line \in TokenPartialLines : appendPartial(line, 1)
  \/ flushLine
  \/ touchFile
  \/ getSessionTokens
  \/ tokensStat
  \/ tokensRead
  \/ tokensSettle
  \/ invalidateTokenCache

SpecTokens == Init /\ [][NextTokens]_vars

\* the histories a listing is built from
EntrySeqs ==
  UNION { { [k \in 1..n |-> entryOf(shapes[k], k)] : shapes \in [1..n -> EntryShapes] } :
          n \in 0..MaxEntries }

\* the body of getSessions, the directories it scans, the archived set
NextListing ==
  \/ /\ listing.pc = "idle"
     /\ \E includeArchived \in BOOLEAN : \E entries \in EntrySeqs :
          sessionsBody(includeArchived, entries)
  \/ /\ listing.pc = "resolving"
     /\ \E dir \in DirChoices(encodeProjectPath(listing.entries[listing.i].project)) :
          sessionsResolved(dir)
  \/ sessionsSorted
  \/ \E id \in SessionIds : archiveSession(id)
  \/ \E id \in SessionIds : unarchiveSession(id)

SpecListing == Init /\ [][NextListing]_vars

\* the body of getSessions, calls that join it while it is pending, and
\* archiveSession and unarchiveSession with their writes
NextJoin ==
  \/ /\ listing.pc = "idle"
     /\ \E includeArchived \in BOOLEAN : \E entries \in EntrySeqs :
          sessionsBody(includeArchived, entries)
  \/ /\ listing.pc = "resolving"
     /\ \E dir \in DirChoices(encodeProjectPath(listing.entries[listing.i].project)) :
          sessionsResolved(dir)
  \/ sessionsSorted
  \/ \E includeArchived \in BOOLEAN : getSessionsJoin(includeArchived)
  \/ \E id \in SessionIds : archiveSession(id)
  \/ \E id \in SessionIds : unarchiveSession(id)

SpecJoin == Init /\ [][NextJoin]_vars

\* the file index: lookups, the build, seeding, and a writer of transcripts
NextIndex ==
  \/ \E path \in Creatable : createFile(path)
  \/ \E id \in SessionIds : \E filePath \in SeedPaths(id) : addToFileIndex(id, filePath)
  \/ \E c \in FindCalls : \E id \in SessionIds : findSessionFile(c, id)
  \/ \E c \in FindCalls : findDirs(c)
  \/ \E c \in FindCalls : \E dir \in DirNames : findFiles(c, dir)
  \/ \E c \in FindCalls : findSettle(c)
  \/ buildFileIndex
  \/ buildDirs
  \/ \E dir \in DirNames : buildFiles(dir)

SpecIndex == Init /\ [][NextIndex]_vars

\* the conversation view: messages arrive, choices are recorded
NextBranch ==
  \/ \E hasUuid \in BOOLEAN :
       \E parentUuid \in {Null} \cup {Some(u) : u \in Uuids \cup {GoneUuid}} :
         messageArrives(hasUuid, parentUuid)
  \/ \E uuid \in Uuids : \E child \in Uuids : chooseBranch(uuid, child)

SpecBranch == Init /\ [][NextBranch]_vars

\* the messages of a transcript as one batch delivers them: every message
\* has a uuid, two messages may have the same
WalkMessages ==
  {messageWith(Some(u), p) : u \in Uuids, p \in {Null} \cup {Some(v) : v \in Uuids}}

WalkInputs ==
  UNION { [1..n -> WalkMessages] : n \in 0..MaxMessages }

\* no choice, or a choice recorded for the messages of uuid 1
WalkChoices == {<<>>} \cup {(1 :> c) : c \in Uuids}

\* one execution of buildBranch
NextWalk ==
  \/ /\ walk.pc = "idle"
     /\ \E msgs \in WalkInputs : \E choices \in WalkChoices : walkStart(msgs, choices)
  \/ walkStep

SpecWalk == Init /\ [][NextWalk]_vars

\* the transcript readers and their file handles
NextHandles ==
  \/ \E c \in ReaderCalls : \E fn \in ReaderFns : readerStart(c, fn)
  \/ \E c \in ReaderCalls : \E found \in BOOLEAN : readerFound(c, found)
  \/ \E c \in ReaderCalls : \E outcome \in {"ok", "return", "throws"} : readerStat(c, outcome)
  \/ \E c \in ReaderCalls : \E opened \in BOOLEAN : readerOpen(c, opened)
  \/ \E c \in ReaderCalls : \E thrown \in BOOLEAN : readerRead(c, thrown)
  \/ \E c \in ReaderCalls : readerClose(c)

SpecHandles == Init /\ [][NextHandles]_vars

\* a session transcript, its writer, and the session view on its stream
NextView ==
  \/ \E line \in StreamLines : appendLine(line)
  \/ view.connects < MaxConnects /\ mountEffect("s1")
  \/ view.connects < MaxConnects /\ \E t \in view.timers : retryFires(t)
  \/ \E k \in 1..Len(view.sources) : onerror(view.sources[k])
  \/ routeSend

SpecView == Init /\ [][NextView]_vars

\* the session view through its renders for one session and another, its
\* unmounts, and the events and errors of its stream connections
NextRetry ==
  \/ view.connects < MaxRetryConnects /\ \E sessionId \in SessionIds : mountEffect(sessionId)
  \/ cleanup
  \/ view.connects < MaxRetryConnects /\ \E t \in view.timers : retryFires(t)
  \/ \E k \in 1..Len(view.sources) : onerror(view.sources[k])
  \/ \E k \in 1..Len(view.sources) : \E from, to \in 1..Len(Sent) :
       messagesEvent(view.sources[k], from, to)

SpecRetry == Init /\ [][NextRetry]_vars

\* archiveSession and unarchiveSession with their writes to the sidecar
NextSidecar ==
  \/ \E id \in SessionIds : archiveSessionCall(id)
  \/ \E id \in SessionIds : unarchiveSessionCall(id)
  \/ \E w \in 1..MaxWrites : writeFileDone(w)

SpecSidecar == Init /\ [][NextSidecar]_vars

\* the transcripts of the sessions, then one search of them
NextSearch ==
  \/ \E id \in SessionIds : indexTranscript(id)
  \/ \E id \in SessionIds : \E line \in SearchLines : appendSearchLine(id, line)
  \/ /\ search.pc = "idle"
     /\ \E query \in Queries : \E maxResults \in 1..2 : \E sessions \in Listings :
          searchSessions(query, maxResults, sessions)

SpecSearch == Init /\ [][NextSearch]_vars

\* a path, character by character, then its encoding
NextEncode ==
  \/ \E c \in PathChars : pathChar(c)
  \/ encodePath

SpecEncode == Init /\ [][NextEncode]_vars

\* the search box: typing, the debounce timeout, the answers of the requests
NextList ==
  \/ \E query \in ListQueries : setSearch(query)
  \/ \E t \in list.timers : debounceFires(t)
  \/ \E f \in list.fetches : fetchResolves(f)
  \/ \E f \in list.fetches : fetchRejects(f)

SpecList == Init /\ [][NextList]_vars

\* a conversation, message by message, then its export
NextExport ==
  \/ \E message \in ExportMessages : exportMessage(message)
  \/ exportMarkdown

SpecExport == Init /\ [][NextExport]_vars

\* ------------------------------------------------------------------------
\* Claims about the request coalescer and the history cache
\* ------------------------------------------------------------------------

\* the key a call of getSessions goes under
keyOf(c) == sessionsKey(calls[c].includeArchived)

\* executions of fn under key k whose promise has not settled
unsettledOps(k) ==
  { c \in CallIds : /\ calls[c].fn = "getSessions" /\ calls[c].invoked
                    /\ keyOf(c) = k /\ calls[c].pc # "settled" }

\* C1: a call of dedupe(key, fn) made while an earlier call with the same
\* key has not settled does not invoke its fn and holds the promise of that
\* one operation, so at most one operation per key is in flight; this holds
\* for getSessions under the key of its includeArchived flag.
C1_Coalescing ==
  /\ \A k \in Keys :
       /\ Cardinality(unsettledOps(k)) <= 1
       /\ \A c \in unsettledOps(k) : pendingRequests[k] = c
  /\ \A c \in CallIds :
       calls[c].pc = "joined" =>
         /\ ~calls[c].invoked
         /\ calls[c].promise \in CallIds \ {c}
         /\ calls[calls[c].promise].invoked
         /\ calls[calls[c].promise].fn = "getSessions"
         /\ keyOf(calls[c].promise) = keyOf(c)
  /\ \A c \in CallIds :
       calls[c].invoked => calls[c].promise = c

\* a second call was coalesced with a getSessions execution still running
C1_Witness ==
  \E c \in CallIds :
    /\ calls[c].pc = "joined"
    /\ calls[calls[c].promise].pc \in {"reading", "read", "annotating"}

\* C2: a key of pendingRequests always belongs to an operation whose promise
\* has not settled: when the operation settles, fulfilled or rejected, the
\* key is gone, and once all operations have settled the map is empty.
C2_KeyFreed ==
  \A k \in Keys :
    pendingRequests[k] # NoCall =>
      /\ pendingRequests[k] \in unsettledOps(k)

\* a rejected operation has settled and a later call with its key ran fn anew
C2_Witness ==
  \E c1, c2 \in CallIds :
    /\ c1 < c2
    /\ calls[c1].fn = "getSessions" /\ calls[c1].invoked
    /\ calls[c1].pc = "settled" /\ ~calls[c1].result.ok
    /\ calls[c2].fn = "getSessions" /\ calls[c2].invoked
    /\ keyOf(c1) = keyOf(c2)
    /\ \A k \in Keys : pendingRequests[k] = NoCall

\* C7 (as claimed): an execution that starts after invalidateHistoryCache()
\* re-reads the log, and never takes its entries from a history read that
\* began before that invalidation. (preInval marks entries whose content
\* readFile had already read when the latest invalidation happened.)
C7_NoEntriesFromBeforeInvalidation ==
  \A c \in CallIds :
    (calls[c].invoked /\ ~calls[c].didRead) => ~calls[c].preInval

\* C8: an execution that starts at most HISTORY_CACHE_TTL_MS after the last
\* completed load, with no invalidation in between, does not read the log;
\* any other execution reads it; and a completed load restarts the window
\* (the cache time is the time of the last completed load).
C8_HistoryCacheTTL ==
  /\ \A c \in CallIds :
       calls[c].invoked => (calls[c].didRead <=> ~calls[c].startFresh)
  /\ (historyCache = Null) <=> (hist.lastLoadDone = Null)
  /\ historyCache # Null => historyCacheTime = Val(hist.lastLoadDone)

\* one execution loaded the log and a later one used the cache, the load
\* now being exactly HISTORY_CACHE_TTL_MS old
C8_Witness ==
  \E c1, c2 \in CallIds :
    /\ c1 < c2
    /\ calls[c1].invoked /\ calls[c1].didRead /\ calls[c1].pc = "settled"
    /\ calls[c2].invoked /\ ~calls[c2].didRead
    /\ hist.lastLoadDone # Null
    /\ now - Val(hist.lastLoadDone) = HISTORY_CACHE_TTL_MS

\* ------------------------------------------------------------------------
\* Claims about the change watcher
\* ------------------------------------------------------------------------

\* C5: once stop() has returned and until start() is called again, no
\* debounce timer is pending and no historyChange, sessionChange or
\* projectChange is emitted, whatever was pending when stop() was called.
C5_StopSilences ==
  ~watcher =>
    /\ timers = {}
    /\ \A path \in Paths : debounceTimers[path] = NoTimer
    /\ wlog.step.emitted = <<>>

\* stop() has just returned and timers were pending when it was called
C5_Witness ==
  /\ ~watcher
  /\ wlog.step.op = "stop"
  /\ wlog.step.hadEvents

\* the latest step delivered a raw event for the path
justEvent(path) == wlog.step.op = "event" /\ wlog.step.path = path

C6_Safety ==
  /\ \A path \in Paths :
       \* at most one pending timer, the one debounceTimers holds
       /\ Cardinality(timersOf(path)) <= 1
       /\ \A t \in timersOf(path) : debounceTimers[path] = t.id
       /\ debounceTimers[path] # NoTimer => timersOf(path) # {}
       \* raw events wait for a notification exactly while the timer is pending
       /\ wlog.unnotified[path] <=> timersOf(path) # {}
  \* a notification comes only after debounceMs of quiet, for waiting events,
  \* and is what emitChange emits for the path
  /\ wlog.step.op = "fire" =>
       /\ wlog.step.quiet >= debounceMs
       /\ wlog.step.hadEvents
       /\ wlog.step.emitted = emitChange(wlog.step.path)

\* an event or a notification of one path leaves the timers of the others
C6_Independent ==
  \A path \in Paths :
    (wlog'.step.op \in {"event", "fire"} /\ wlog'.step.path # path) =>
      /\ timersOf(path)' = timersOf(path)
      /\ debounceTimers'[path] = debounceTimers[path]

\* C6: debouncing is per path: at most one timer is pending for a path; the
\* raw events of a burst get one notification (one run of emitChange for the
\* path), emitted only once the path has been quiet for debounceMs, and they
\* do get it unless the watcher is stopped or the burst goes on; events of
\* other paths neither cancel nor delay it.
C6_Debounce ==
  /\ []C6_Safety
  /\ [][C6_Independent]_vars
  /\ \A path \in Paths :
       (wlog.unnotified[path] /\ ~justEvent(path))
         ~> (~wlog.unnotified[path] \/ justEvent(path))

\* a burst of two raw events of the transcript, the second one less than
\* debounceMs after the first, has just been notified once
C6_Witness ==
  /\ wlog.step.op = "fire"
  /\ wlog.step.path = TranscriptPath
  /\ wlog.step.quiet = debounceMs
  /\ wlog.step.emitted = emitChange(TranscriptPath)
  /\ timersOf(HistoryPath) # {}

\* C19: when the timer of a path fires, the watcher emits exactly one
\* historyChange and nothing else for the history log; for a transcript (a
\* *.jsonl file of a project directory) one sessionChange with the file name
\* without .jsonl, then one projectChange with the name of the parent
\* directory, and no historyChange; nothing for any other path.
C19_EmitByPath ==
  wlog.step.op = "fire" =>
    LET path == wlog.step.path IN
    wlog.step.emitted =
      IF path = HistoryPath THEN <<[event |-> "historyChange"]>>
      ELSE IF path.ext = ".jsonl"
           THEN <<[event |-> "sessionChange", arg |-> path.stem],
                  [event |-> "projectChange", arg |-> path.dir]>>
           ELSE <<>>

\* ------------------------------------------------------------------------
\* Claims about the readers of a transcript
\* ------------------------------------------------------------------------

\* Two incremental reads split the file at a line boundary N: the first was
\* asked for offset 0 of the file when it ended at N, the second for offset
\* N of the file as it is now, neither file changed between stat and the
\* stream, and getConversation has just read the file as it is now.
splitRead ==
  /\ streamPrev.pc = "done"
  /\ stream.pc = "done"
  /\ conversation # Null
  /\ streamPrev.fromOffset = 0
  /\ streamPrev.static
  /\ streamPrev.atBoundary
  /\ stream.fromOffset = streamPrev.sizeAtRead
  /\ stream.statAt = stream.readAt
  /\ stream.readAt = mtimeMs

\* C3 as stated: the messages of the two incremental reads, concatenated,
\* are the messages of one full read by getConversation, in the same order.
C3_Resumable ==
  splitRead => streamPrev.messages \o stream.messages = Val(conversation)

\* the file has no summary line and every line that is not blank parses
wellFormed(f) ==
  \A i \in 1..Len(f.lines) : textType(f.lines[i]) \notin {"summary", "bad"}

\* C3, amended: the messages of the two incremental reads, concatenated, are
\* the messages of one full read by getConversation, in the same order, when
\* the file has no summary line and no line that fails to parse.
C3_ResumableWellFormed ==
  (splitRead /\ wellFormed(transcript)) =>
    streamPrev.messages \o stream.messages = Val(conversation)

\* both incremental reads of a split returned messages, and getConversation
\* returned them all
C3_Witness ==
  /\ splitRead
  /\ wellFormed(transcript)
  /\ streamPrev.messages # <<>>
  /\ stream.messages # <<>>
  /\ Len(Val(conversation)) = Len(transcript.lines)

\* the bytes of a sequence of lines, each with its newline
RECURSIVE bytesOf(_)
bytesOf(rl) == IF rl = <<>> THEN 0 ELSE rl[1].bytes + 1 + bytesOf(Tail(rl))

\* the user and assistant messages of a sequence of lines
messagesIn(rl) ==
  LET kept == SelectSeq(rl, LAMBDA l : l.type \in {"user", "assistant"})
  IN  [i \in 1..Len(kept) |-> messageOf(kept[i])]

\* C4: when the lines an incremental read is given have a non-blank line
\* that does not parse, the read returns the messages of the lines before
\* the first such line, and nextOffset is fromOffset plus the bytes of the
\* lines before it.
C4_StopsAtUnparsable ==
  LET bad == {i \in 1..Len(stream.seen) : stream.seen[i].type = "bad"} IN
  (stream.pc = "done" /\ bad # {}) =>
    LET b == CHOOSE i \in bad : \A j \in bad : i <= j
        before == SubSeq(stream.seen, 1, b - 1)
    IN  /\ stream.messages = messagesIn(before)
        /\ stream.nextOffset = stream.fromOffset + bytesOf(before)

\* the lines an incremental read went through: those before the first
\* non-blank line that does not parse
consumedLines(rl) ==
  LET bad == {i \in 1..Len(rl) : rl[i].type = "bad"}
  IN  IF bad = {} THEN rl
      ELSE SubSeq(rl, 1, (CHOOSE i \in bad : \A j \in bad : i <= j) - 1)

\* C15: in an incremental read, nextOffset minus fromOffset is the byte
\* length of the complete, well-formed user and assistant lines that the
\* read went through, and of nothing else.
C15_OnlyMessagesAdvance ==
  stream.pc = "done" =>
    stream.nextOffset - stream.fromOffset
      = bytesOf(SelectSeq(consumedLines(stream.seen),
                          LAMBDA l : l.type \in {"user", "assistant"}))

\* the lines of the file as a full read parses them
parsedFile ==
  [i \in 1..Len(transcript.lines) |-> [line |-> i, type |-> textType(transcript.lines[i])]]

tokDone == tok.pc \in {"fnDone", "settled"}

\* what an execution returned; the transcript was opened only on a miss
C9_Lookup ==
  tokDone =>
    /\ ~tok.opened <=> /\ tok.cached # Null
                       /\ Val(tok.cached).size = tok.fileSize
                       /\ Val(tok.cached).mtime = tok.mtime
    /\ ~tok.opened => tok.result = Some(Val(tok.cached).tokens)
    /\ (tok.opened /\ ~tok.cleared) =>
         tokenCache = Some([tokens |-> Val(tok.result), size |-> tok.fileSize,
                            mtime |-> tok.mtime])

\* two executions one after the other, with no invalidateTokenCache between
\* them, that were answered the same size and mtime by stat
sameStat ==
  /\ tokDone
  /\ tokPrev.pc = "settled"
  /\ ~tokPrev.cleared
  /\ tok.fileSize = tokPrev.fileSize
  /\ tok.mtime = tokPrev.mtime

\* C9: getSessionTokens returns the cached tokens without opening the
\* transcript exactly when the cache holds an entry for the session whose
\* size and mtime both equal what stat answered; otherwise it computes the
\* tokens from the file and stores them under the size and mtime that stat
\* answered. Of two consecutive calls that find the same size and mtime the
\* second does not read the file and returns what the first returned.
C9_TokenCache ==
  /\ C9_Lookup
  /\ sameStat => (~tok.opened /\ tok.result = tokPrev.result)

\* the first of two consecutive calls read the file, the second was served
\* from the cache, and the tokens are not all zero
C9_Witness ==
  /\ sameStat
  /\ tokPrev.opened
  /\ ~tok.opened
  /\ Val(tok.result).outputTokens > 0

\* the latest two executions both computed the tokens from the file, and
\* between them one line was appended that parses and has a usage object
appendedUsageLine ==
  /\ tokDone
  /\ tok.opened
  /\ tokPrev.pc = "settled"
  /\ tokPrev.opened
  /\ ~tok.open
  /\ ~tokPrev.open
  /\ tok.nLines = tokPrev.nLines + 1
  /\ textType(Val(tok.lastLine)) # "bad"
  /\ Val(tok.lastLine).usage # Null

\* C10: after one well-formed line with a usage object has been appended,
\* the recomputed outputTokens is the previous outputTokens plus the line's
\* output_tokens, and inputTokens is the line's input_tokens +
\* cache_creation_input_tokens + cache_read_input_tokens (an absent field
\* counts 0); outputTokens never decreases from one execution to the next.
C10_TokenAccounting ==
  /\ appendedUsageLine =>
       LET usage == Val(Val(tok.lastLine).usage) IN
       /\ Val(tok.result).outputTokens =
            Val(tokPrev.result).outputTokens + orZero(usage.output_tokens)
       /\ Val(tok.result).inputTokens =
            orZero(usage.input_tokens) + orZero(usage.cache_creation_input_tokens)
              + orZero(usage.cache_read_input_tokens)
  /\ (tokDone /\ tokPrev.pc = "settled") =>
       Val(tok.result).outputTokens >= Val(tokPrev.result).outputTokens

\* tokens were recomputed after a line with output tokens and cache tokens
\* was appended to a file that already had output tokens
C10_Witness ==
  /\ appendedUsageLine
  /\ Val(tokPrev.result).outputTokens > 0
  /\ Val(tok.result).outputTokens > Val(tokPrev.result).outputTokens
  /\ Val(tok.result).cacheCreationTokens > 0

\* ------------------------------------------------------------------------
\* Claims about the listing of sessions
\* ------------------------------------------------------------------------

\* the entries of the history that resolved to the session id
entriesOf(id) ==
  {k \in 1..Len(listing.resolved) : listing.resolved[k] = Some(id)}

\* of those, the ones not dropped as archived when they were gone through
keptEntriesOf(id) ==
  {k \in entriesOf(id) : listing.includeArchived \/ id \notin listing.archivedSeen[k]}

\* the positions of the session id in the returned list
listedAt(id) ==
  {k \in 1..Len(listing.result) : listing.result[k].id = id}

C12_DescendingTimestamp ==
  listing.pc = "done" =>
    /\ \A k \in 1..(Len(listing.result) - 1) :
         listing.result[k].timestamp >= listing.result[k + 1].timestamp
    /\ Len(listing.result) = Len(listing.sessions)
    /\ {listing.result[k] : k \in 1..Len(listing.result)}
         = {listing.sessions[k] : k \in 1..Len(listing.sessions)}

\* two sessions were returned in the reverse of the order of their entries
C12_Witness ==
  /\ listing.pc = "done"
  /\ Len(listing.result) = 2
  /\ listing.result[1].timestamp > listing.result[2].timestamp
  /\ listing.result[1].display > listing.result[2].display

\* C13: getSessions(false) returns no archived session; getSessions(true)
\* returns a Session for every session id an entry resolved to; the archived
\* flag of a returned session is the membership of its id in the archived
\* set when the session was built from its entry.
C13_ArchivedFilter ==
  listing.pc = "done" =>
    /\ \A k \in 1..Len(listing.result) :
         LET session == listing.result[k] IN
         /\ session.archived = (session.id \in listing.archivedSeen[session.display])
         /\ ~listing.includeArchived => ~session.archived
    /\ listing.includeArchived =>
         \A id \in SessionIds : entriesOf(id) # {} => listedAt(id) # {}

\* getSessions(true) returned an archived session and one that is not
C13_Witness ==
  /\ listing.pc = "done"
  /\ listing.includeArchived
  /\ \E j, k \in 1..Len(listing.result) :
       listing.result[j].archived /\ ~listing.result[k].archived

\* the *.jsonl files of a directory listing, by position
jsonlAt(files) == {j \in 1..Len(files) : files[j].ext = ".jsonl"}

\* C14: an entry without sessionId resolves to the *.jsonl file of its
\* project directory whose mtime is nearest to the entry's timestamp, the
\* first in directory order among the nearest; to nothing when the directory
\* is missing or has no *.jsonl file.
C14_ClosestByTimestamp ==
  \A k \in 1..Len(listing.dirSeen) :
    listing.dirSeen[k] # Null =>
      LET dir == Val(listing.dirSeen[k])
          timestamp == listing.entries[k].timestamp
      IN  IF dir = Null \/ jsonlAt(Val(dir)) = {}
          THEN listing.resolved[k] = Null
          ELSE LET files == Val(dir)
                   diff(j) == abs(files[j].mtime - timestamp)
               IN  \E j \in jsonlAt(files) :
                     /\ listing.resolved[k] = Some(files[j].stem)
                     /\ \A m \in jsonlAt(files) :
                          diff(j) < diff(m) \/ (diff(j) = diff(m) /\ j <= m)

\* two files were equally near, with a file that is no transcript listed
\* between them, and the entry resolved to the first
C14_Witness ==
  \E k \in 1..Len(listing.dirSeen) :
    /\ listing.dirSeen[k] # Null
    /\ Val(listing.dirSeen[k]) # Null
    /\ Len(Val(Val(listing.dirSeen[k]))) = 3
    /\ listing.entries[k].timestamp = 2
    /\ listing.resolved[k] = Some("s2")

\* ------------------------------------------------------------------------
\* Claims about the file index
\* ------------------------------------------------------------------------

\* C17: after a lookup that missed the index, every *.jsonl file that the
\* scan of the lookup was shown in a project directory has an index entry
\* under its name without the extension.
C17_ScanIndexesAll ==
  \A c \in FindCalls :
    (finds[c].pc = "done" /\ finds[c].scanned) =>
      \A dir \in DOMAIN finds[c].seen :
        \A file \in finds[c].seen[dir] :
          file.ext = ".jsonl" => file.stem \in DOMAIN fileIndex

\* a path whose file name is <id>.jsonl, in a project directory
pathOfSession(filePath, id) ==
  filePath.file = fileName(id, ".jsonl") /\ filePath.dir \in DirNames

\* the entries the scans have written are paths <id>.jsonl that readdir
\* listed in their project directory
scanEntriesListed ==
  /\ \A c \in FindCalls :
       finds[c].wrote # Null =>
         LET filePath == Val(finds[c].wrote) IN
         /\ pathOfSession(filePath, finds[c].sessionId)
         /\ filePath.file \in finds[c].seen[filePath.dir]
  /\ \A pr \in build.wrote :
       /\ pathOfSession(pr[2], pr[1])
       /\ pr[2].file \in build.seen[pr[2].dir]

\* no step removes an entry
noEntryRemoved == DOMAIN fileIndex \subseteq DOMAIN fileIndex'

\* a step other than addToFileIndex that sets an entry is the step of a
\* scan, and sets a path <id>.jsonl of a file of a project directory
scanWritesSessionPath ==
  nSeeds' = nSeeds =>
    \A id \in DOMAIN fileIndex' :
      (id \notin DOMAIN fileIndex \/ fileIndex'[id] # fileIndex[id]) =>
        /\ pathOfSession(fileIndex'[id], id)
        /\ fileIndex'[id].file \in disk[fileIndex'[id].dir]
        /\ \/ build' # build
           \/ \E c \in FindCalls : finds'[c].wrote = Some(fileIndex'[id])
                                     /\ finds[c].wrote = Null

\* a lookup of an id that is in the index returns the entry at once
answeredFromIndex ==
  \A c \in FindCalls :
    (finds[c].pc = "idle" /\ finds'[c].pc # "idle"
       /\ finds'[c].sessionId \in DOMAIN fileIndex) =>
      /\ finds'[c].pc = "done"
      /\ ~finds'[c].scanned
      /\ finds'[c].returned = Some(fileIndex[finds'[c].sessionId])
      /\ fileIndex' = fileIndex

\* a lookup that returns while no project directory has a file of its id
\* (none has had one) returns null and leaves the index as it is
noFileNoEntry ==
  \A c \in FindCalls :
    (finds[c].pc # "done" /\ finds'[c].pc = "done" /\ finds'[c].scanned
       /\ \A dir \in DirNames : targetFileOf(finds[c].sessionId) \notin disk[dir]) =>
      /\ finds'[c].returned = Null
      /\ fileIndex' = fileIndex

\* C18: under any interleaving of lookups that miss, the index build and
\* addToFileIndex: no entry of the file index is removed; an entry written
\* by a scan maps a session id to a path <id>.jsonl that was listed in a
\* project directory; a lookup of an id that is in the index is answered
\* from the index without a scan; a lookup of an id with no file returns
\* null and adds no entry.
C18_IndexSafe ==
  /\ []scanEntriesListed
  /\ [][noEntryRemoved /\ scanWritesSessionPath /\ answeredFromIndex /\ noFileNoEntry]_vars

\* a lookup that missed has set its entry while another lookup that missed
\* is reading the directories, the build has set entries and an entry was
\* seeded
C18_Witness ==
  /\ \E c, d \in FindCalls :
       /\ finds[c].wrote # Null
       /\ finds[d].pc = "files" /\ finds[d].scanned /\ finds[d].pending # DirNames
  /\ build.wrote # {}
  /\ nSeeds = 1

\* ------------------------------------------------------------------------
\* Claims about the conversation view
\* ------------------------------------------------------------------------

\* the children of a message among the messages of the session
childrenIn(m) ==
  IF m.uuid = Null THEN <<>> ELSE childrenOf(allConversation, Val(m.uuid))

\* C20: the reconstructed branch starts at the first root; at every message
\* on it that has children the next message is the child recorded in
\* branchChoices for the message's uuid when one is recorded (the last-listed
\* child when the recorded uuid is no child of the message), and otherwise
\* the last-listed child; the branch ends at the first message without
\* children.
C20_BranchChoice ==
  rootsOf(allConversation) # <<>> =>
    LET branch == conversationMessages IN
    /\ branch # <<>>
    /\ branch[1] = rootsOf(allConversation)[1]
    /\ \A k \in 1..Len(branch) :
         LET children == childrenIn(branch[k])
             uuids == {children[j].uuid : j \in 1..Len(children)}
         IN  IF children = <<>> THEN k = Len(branch)
             ELSE /\ k < Len(branch)
                  /\ LET uuid == Val(branch[k].uuid) IN
                     IF uuid \in DOMAIN branchChoices /\ Some(branchChoices[uuid]) \in uuids
                     THEN branch[k + 1].uuid = Some(branchChoices[uuid])
                     ELSE branch[k + 1] = children[Len(children)]

\* one root with two children: a choice recorded for the root leads the
\* branch through the first child, where the default is the last-listed
\* child
C20_Witness ==
  /\ allConversation = << messageWith(Some(1), Null), messageWith(Some(2), Some(1)),
                          messageWith(Some(3), Some(1)) >>
  /\ branchChoices = (1 :> 2)
  /\ conversationMessages = << allConversation[1], allConversation[2] >>
  /\ buildBranch(allConversation, <<>>) = << allConversation[1], allConversation[3] >>

\* C22: when the messages contain no root (there is no message, or every
\* message has a parentUuid), buildBranch returns the messages unchanged:
\* every message, in the same order.
C22_NoRootUnchanged ==
  (\A k \in 1..Len(allConversation) : allConversation[k].parentUuid # Null) =>
    /\ Len(conversationMessages) = Len(allConversation)
    /\ \A k \in 1..Len(allConversation) : conversationMessages[k] = allConversation[k]

\* three messages, each with a parentUuid (an unknown uuid, the message
\* itself, a later message), were returned as they are, with a choice recorded
C22_Witness ==
  /\ Len(allConversation) = 3
  /\ \A k \in 1..3 : allConversation[k].parentUuid # Null
  /\ \E k \in 1..3 : allConversation[k].parentUuid = Some(GoneUuid)
  /\ \E k \in 1..3 : allConversation[k].parentUuid = allConversation[k].uuid
  /\ branchChoices # <<>>
  /\ conversationMessages = allConversation

\* a position of walk.msgs occurs twice on the chain
chainRepeats ==
  \E j, k \in 1..Len(walk.chain) : j < k /\ walk.chain[j] = walk.chain[k]

\* C21: on messages with at least one root buildBranch terminates with one
\* path through the tree: no message is pushed twice on the chain (the loop
\* ends after as many iterations as there are messages, at most), and the
\* chain returned begins with the first root, each later message is a child
\* of the message before it, and the last message has no children.
C21_OnePath ==
  rootPositions(walk.msgs) # <<>> =>
    /\ ~chainRepeats
    /\ walk.pc = "done" =>
         LET chain == walk.chain
             msgAt(k) == walk.msgs[chain[k]]
         IN  /\ chain # <<>>
             /\ chain[1] = rootPositions(walk.msgs)[1]
             /\ \A k \in 2..Len(chain) : msgAt(k).parentUuid = msgAt(k - 1).uuid
             /\ childPositions(walk.msgs, Val(msgAt(Len(chain)).uuid)) = <<>>

\* ------------------------------------------------------------------------
\* Claims about the read operations and the history log
\* ------------------------------------------------------------------------

\* C23: no read operation fails: a call of getSessions or getProjects that
\* has settled has fulfilled, whatever the history log holds.
C23_NoReadFails ==
  \A c \in CallIds :
    (calls[c].invoked /\ calls[c].pc \in {"fnDone", "settled"}) => calls[c].result.ok

\* the lines that parse, in file order
parsedLines(lines) == SelectSeq(lines, LAMBDA line : line.kind # "bad")

\* the step in which loadHistoryCache of call c resumes with what readFile gave
loadStep(c) == calls[c].pc = "read" /\ calls'[c].pc # "read"

\* C24: when loadHistoryCache has read the log, the cache is set to the
\* lines that parse, in file order, each line that fails to parse left out;
\* to the empty sequence when the file is absent or unreadable; the cache
\* time is set to the current time; and no error is raised by the load.
C24_LoadSkipsBadLines ==
  [][\A c \in CallIds :
       loadStep(c) =>
         /\ historyCache' = Some(IF calls[c].buf = Null THEN <<>>
                                 ELSE parsedLines(Val(calls[c].buf)))
         /\ historyCacheTime' = now
         /\ ~isHistoryCacheStale'
         /\ (~\E i \in 1..Len(Val(historyCache')) : Val(historyCache')[i].kind = "null")
              => calls'[c].result.ok]_vars

\* the cache holds an entry that came after a line that does not parse
C24_Witness ==
  /\ historyLog # Null
  /\ Len(Val(historyLog)) = 2
  /\ Val(historyLog)[1] = BadHistoryLine
  /\ Val(historyLog)[2].kind = "entry"
  /\ historyCache = Some(<<Val(historyLog)[2]>>)
  /\ historyCacheTime = now

\* ------------------------------------------------------------------------
\* Claims about the file handles
\* ------------------------------------------------------------------------

\* the handles that executions of the readers hold open
openHandles == {c \in ReaderCalls : readers[c].isOpen}

\* C25: every file handle opened by getConversationStream or
\* getSessionTokens is closed when the call has settled, whether it returned
\* normally, returned early or went through the catch block; when no call
\* is in flight no handle is open.
C25_HandlesClosed ==
  /\ \A c \in ReaderCalls : readers[c].pc = "settled" => ~readers[c].isOpen
  /\ (\A c \in ReaderCalls : readers[c].pc \in {"idle", "settled"}) => openHandles = {}

\* two executions overlapped, both have settled: one had opened its handle
\* and went through the catch block, the other returned normally
C25_Witness ==
  /\ \A c \in ReaderCalls : readers[c].pc = "settled" /\ readers[c].fileHandle
  /\ \E c, d \in ReaderCalls : readers[c].thrown /\ ~readers[d].thrown
  /\ \E c, d \in ReaderCalls : readers[c].fn # readers[d].fn

\* ------------------------------------------------------------------------
\* Claims about the session view
\* ------------------------------------------------------------------------

\* the lines of the transcript that are messages of the stream
messageLines == {i \in 1..Len(transcript.lines) : streamKeeps(transcript.lines[i].type)}

\* off is a byte offset that separates the messages in received from the
\* others: every received message ends before it, every other message
\* starts at it or after it
resumesAfter(off, received) ==
  \A i \in messageLines :
    IF i \in received THEN lineStart(transcript.lines, i + 1) <= off
    ELSE off <= lineStart(transcript.lines, i)

\* C26: whenever the session view has connected its stream, the offset it
\* submitted is the byte offset up to which it had received the transcript:
\* the messages it held end before that offset and the messages it did not
\* hold start at or after it.
C26_ResumeOffset == view.connects > 0 => resumesAfter(view.submitted, view.receivedAtConnect)

\* ------------------------------------------------------------------------
\* Claims about the archived-sessions sidecar
\* ------------------------------------------------------------------------

\* C27: every call of archiveSession and unarchiveSession rewrites the
\* sidecar with the whole in-memory archived set, and once all the calls
\* made have completed, overlapping ones included, the sidecar holds exactly
\* the in-memory set.
C27_SidecarIsMemory ==
  (sidecar.writes # <<>> /\ \A w \in 1..Len(sidecar.writes) : sidecar.writes[w].done)
    => sidecar.file = Some(archivedSessions)

\* ------------------------------------------------------------------------
\* Claims about searchSessions
\* ------------------------------------------------------------------------

\* the messages of session id whose text contains the query, whatever the
\* case of either
hitsOf(id, query) ==
  {i \in 1..Len(sessionFiles[id]) :
     /\ sessionFiles[id][i].type \in {"user", "assistant"}
     /\ includes(toLowerCase(sessionFiles[id][i].text), toLowerCase(query))}

\* the query of the search matches text in exactly one message, of one
\* session
oneMessageMatches ==
  \E id \in SessionIds :
    /\ Cardinality(hitsOf(id, search.query)) = 1
    /\ \A other \in SessionIds \ {id} : hitsOf(other, search.query) = {}

\* the session with the matching message is one that getSessions listed,
\* and its transcript is in the file index
matchIsListed ==
  \A id \in SessionIds :
    hitsOf(id, search.query) # {} => (search.sessions[id] # Null /\ id \in searchIndex)

oneResult ==
  /\ Len(search.results) = 1
  /\ Len(search.results[1].matches) <= 3

\* C28 as stated: a search with a query of 2 characters returns no result
\* whatever the transcripts contain, and a search with a query of 3
\* characters that matches text in one message of one session returns
\* exactly one result, with at most 3 matches.
C28_TwoCharsNoResult ==
  search.pc = "done" =>
    /\ Len(search.query) = 2 => search.results = <<>>
    /\ (Len(search.query) = 3 /\ oneMessageMatches) => oneResult

\* C28, amended: a search with a query of fewer than 2 characters returns
\* no result whatever the transcripts contain, and a search with a query of
\* 3 characters that matches text in one message of one listed session whose
\* transcript is in the file index returns exactly one result, with at most
\* 3 matches.
C28_ShortQueryNoResult ==
  search.pc = "done" =>
    /\ Len(search.query) < 2 => search.results = <<>>
    /\ (Len(search.query) = 3 /\ oneMessageMatches /\ matchIsListed) => oneResult

\* a query of 3 characters has been searched; it matches one message, in
\* another case than the query's, of a listed session whose transcript has
\* other lines as well, and the other session is listed too
C28_Witness ==
  /\ search.pc = "done"
  /\ search.query = <<"h", "I", "!">>
  /\ oneMessageMatches
  /\ hitsOf("s2", search.query) # {}
  /\ Len(sessionFiles["s2"]) = 3
  /\ sessionFiles["s1"] # <<>>
  /\ \A id \in SessionIds : search.sessions[id] # Null
  /\ oneResult

\* C29: searchSessions returns no result for a query of fewer than 2
\* characters; otherwise it returns at most maxResults results, each for a
\* listed session, no two for the same session, each with 1 to 3 matches,
\* in order of non-increasing session timestamp.
C29_SearchResults ==
  search.pc = "done" =>
    LET results == search.results IN
    /\ Len(search.query) < 2 => results = <<>>
    /\ Len(results) <= search.maxResults
    /\ \A i \in 1..Len(results) :
         /\ search.sessions[results[i].sessionId] = Some(results[i].timestamp)
         /\ Len(results[i].matches) \in 1..3
    /\ \A i, j \in 1..Len(results) :
         /\ i # j => results[i].sessionId # results[j].sessionId
         /\ i < j => results[i].timestamp >= results[j].timestamp

\* both sessions are results, in the other order than the index gives them,
\* and one of them holds 3 matches
C29_Witness ==
  /\ search.pc = "done"
  /\ Len(search.results) = 2
  /\ search.results[1].sessionId = "s2"
  /\ search.results[1].timestamp > search.results[2].timestamp
  /\ \E i \in 1..2 : Len(search.results[i].matches) = 3

\* ------------------------------------------------------------------------
\* Claims about encodeProjectPath
\* ------------------------------------------------------------------------

\* p and q have the same length and differ only at positions where both
\* hold one of '/', '.', '-'
sameButSeparators(p, q) ==
  /\ Len(p) = Len(q)
  /\ \A k \in 1..Len(p) : p[k] = q[k] \/ {p[k], q[k]} \subseteq {"/", ".", "-"}

\* C30: encodeProjectPath is defined for every path; its output has the
\* length of the input, holds '-' wherever the input holds '/' or '.' and
\* the input's character everywhere else, so contains no '/' and no '.'; it
\* is unchanged by encoding it again; and it is the output of every path
\* that differs from the input only in which of '/', '.', '-' stands at a
\* position.
C30_EncodeProjectPath ==
  encoding.dirName # Null =>
    LET path == encoding.path
        out == Val(encoding.dirName)
    IN  /\ Len(out) = Len(path)
        /\ \A k \in 1..Len(path) :
             out[k] = IF path[k] \in {"/", "."} THEN "-" ELSE path[k]
        /\ \A k \in 1..Len(out) : out[k] \notin {"/", "."}
        /\ encodeProjectPath(out) = out
        /\ \A q \in [1..Len(path) -> PathChars] :
             sameButSeparators(path, q) => encodeProjectPath(q) = out

\* a path with a '.', a '/' and another character has been encoded
C30_Witness ==
  /\ encoding.dirName # Null
  /\ {encoding.path[k] : k \in 1..Len(encoding.path)} = {"/", ".", "a"}

\* ------------------------------------------------------------------------
\* Claims about tailing a transcript
\* ------------------------------------------------------------------------

\* the offsets at which a line of the file starts, and the end of the file
lineBoundaries ==
  {lineStart(transcript.lines, i) : i \in 1..(Len(transcript.lines) + 1)}

\* C32: a consumer that chains incremental reads while whole lines are
\* appended, also between a read's stat and its stream, receives each user
\* and assistant message once, in file order, and every nextOffset it is
\* given is at a line boundary.
C32_ExactlyOnce ==
  /\ \A i, j \in 1..Len(stream.received) :
       i < j => stream.received[i].line < stream.received[j].line
  /\ stream.pc = "done" => stream.nextOffset \in lineBoundaries

\* the user and assistant messages a full read of the file returns
fullReadMessages ==
  SelectSeq(conversationLoop(readLines(transcript, 0), 1, <<>>),
            LAMBDA m : m.type \in {"user", "assistant"})

\* the consumer is at the end of the file and has received every message
\* of a full read
caughtUp ==
  /\ stream.pc = "done"
  /\ stream.nextOffset = fileSizeOf(transcript)
  /\ \A k \in 1..Len(fullReadMessages) :
       \E i \in 1..Len(stream.received) : stream.received[i] = fullReadMessages[k]

\* the file has a line that is not blank and does not parse
hasUnparsable == \E i \in 1..Len(transcript.lines) : textType(transcript.lines[i]) = "bad"

C34_OffsetMonotone ==
  stream.pc = "done" =>
    LET larger == IF stream.fromOffset > stream.fileSize THEN stream.fromOffset
                  ELSE stream.fileSize
    IN  /\ stream.nextOffset >= stream.fromOffset
        /\ stream.nextOffset <= larger
        /\ stream.fromOffset >= stream.fileSize =>
             (stream.messages = <<>> /\ stream.nextOffset = stream.fromOffset)

\* ------------------------------------------------------------------------
\* Claims about the freshness of the token cache
\* ------------------------------------------------------------------------

\* the totals of the file as it is now
totalsNow == tokensLoop(usageLines(transcript), 1, Null, 0)

\* C39: the value an execution of getSessionTokens returns, from the cache
\* or from the file, is the totals of the file as it is at the step in which
\* the execution gets it, a moment between its stat and its return; this for
\* any interleaving of appends, calls and invalidateTokenCache.
C39_NoStaleTotals ==
  [][(tok.pc \in {"stat", "read"} /\ tok'.pc = "fnDone") => tok'.result = Some(totalsNow)]_vars

\* an execution found the file larger than an earlier one had cached it:
\* that one's stat was answered before an append and its stream read after
\* it, so its entry holds the totals of the larger file under the smaller
\* size
C39_Witness ==
  /\ tok.pc = "fnDone"
  /\ tok.opened
  /\ tok.cached # Null
  /\ Val(tok.cached).size < tok.fileSize
  /\ Val(tok.cached).tokens = Val(tok.result)
  /\ Val(tok.result).outputTokens > 0

\* ------------------------------------------------------------------------
\* Claims about getSessions and the archive
\* ------------------------------------------------------------------------

\* the ids of the Sessions a listing returned
resultIds == {listing.result[k].id : k \in 1..Len(listing.result)}

\* C35: a call of getSessions(false) made after the calls of archiveSession
\* and unarchiveSession before it have completed returns no session that
\* was archived when it was made, and returns every session an entry
\* resolved to that was not archived then, also when it was made while an
\* earlier getSessions(false) was pending.
C35_ArchiveVisible ==
  (/\ listing.pc = "done"
   /\ ~listing.includeArchived
   /\ listing.joined # Null)
  => /\ resultIds \cap Val(listing.joined) = {}
     /\ \A id \in SessionIds :
          (entriesOf(id) # {} /\ id \notin Val(listing.joined))
            => id \in resultIds

\* ------------------------------------------------------------------------
\* Claims about the life cycle of the session view
\* ------------------------------------------------------------------------

\* C37: the message list of the session view holds no two messages with the
\* same uuid and no message twice.
C37_NoDuplicates ==
  \A i, j \in 1..Len(view.messages) :
    i # j =>
      /\ view.messages[i].line # view.messages[j].line
      /\ view.messages[i].uuid # Null => view.messages[i].uuid # view.messages[j].uuid

\* min(1000 * 2^n, 30000) for n from 0
delayAfter(n) ==
  CASE n = 0 -> 1000
    [] n = 1 -> 2000
    [] n = 2 -> 4000
    [] n = 3 -> 8000
    [] n = 4 -> 16000
    [] OTHER -> 30000

\* the sources open after a step that were not open before it
opened == {k \in 1..Len(view'.sources) : view'.sources[k].id > view.connects}

\* a source has delivered a "messages" event in the step
delivered ==
  \E j \in 1..Len(view.sources) : \E k \in 1..Len(view'.sources) :
    /\ view.sources[j].id = view'.sources[k].id
    /\ view.sources[j].sent < view'.sources[k].sent

\* C38: at most one EventSource is open and at most one reconnect pending;
\* a stream error closes the failed source and, with n errors since the
\* view was set up or got a "messages" event, sets one timeout of
\* min(1000 * 2^n, 30000) ms when n < 10 and none when n >= 10; a "messages"
\* event resets the retry count; a source is opened only for the session of
\* the effect that is set up.
C38_BoundedReconnect ==
  [][ /\ Len(view'.sources) <= 1
      /\ Cardinality(view'.timers) <= 1
      /\ view'.failed # view.failed =>
           LET n == view.failures
               set == view'.timers \ view.timers
           IN  /\ \A k \in 1..Len(view'.sources) :
                    Some(view'.sources[k].id) # view'.failed
               /\ Cardinality(set) <= 1
               /\ \A t \in set : t.delay = delayAfter(n)
               /\ n < 10 => set # {}
               /\ n >= 10 => view'.timers = {}
      /\ delivered => view'.retryCount = 0
      /\ \A k \in opened :
           /\ view'.effectOn
           /\ view'.sessionId = Some(view'.sources[k].session)
    ]_vars

\* the stream failed eleven times in a row: ten reconnects were made, the
\* last of them after the capped delay, and none is pending after the
\* eleventh error
C38_Witness ==
  /\ view.failures = 11
  /\ view.connects = 11
  /\ view.scheduled = 10
  /\ view.effectOn
  /\ view.sources = <<>>
  /\ view.timers = {}

\* ------------------------------------------------------------------------
\* Claims about the search box of the session list
\* ------------------------------------------------------------------------

\* the list shows the results of a search (session-list.tsx:155, 178)
showsResults == ~list.searching /\ list.searchResults # Null

\* C36: the search results the session list shows are those of a request
\* made for the text now in the search box, and none are shown while that
\* text has fewer than 3 characters.
C36_LatestQuery ==
  showsResults =>
    /\ Val(list.searchResults).query = list.search
    /\ Len(list.search) >= 3

\* ------------------------------------------------------------------------
\* Claims about the markdown export
\* ------------------------------------------------------------------------

\* the message is a user or assistant message with a content whose
\* formatted content is not empty
hasSection(message) ==
  /\ message.type \in {"user", "assistant"}
  /\ ~noContent(message)
  /\ formattedContentOf(Val(message.content)) # <<>>

\* a block that is shown as nothing: a text block without text or whose
\* text is all taken out, a thinking block without thinking, the result of
\* a tool that is no error or has no content
showsNothing(block) ==
  CASE block.type = "text" ->
         ~truthy(block.text) \/ \A k \in 1..Len(Val(block.text)) : Val(block.text)[k] = Tagged
    [] block.type = "thinking" -> ~truthy(block.thinking)
    [] block.type = "tool_result" -> ~block.is_error \/ ~truthy(block.content)
    [] OTHER -> FALSE

\* the blocks of the message are all shown as nothing
allBlocksNothing(message) ==
  /\ message.content # Null
  /\ "blocks" \in DOMAIN Val(message.content)
  /\ \A k \in 1..Len(Val(message.content).blocks) :
       showsNothing(Val(message.content).blocks[k])

\* the section of a message: its role as a heading, then its formatted
\* content
sectionOf(message) ==
  <<"## ", IF message.type = "user" THEN "User" ELSE "Assistant", BlankLine>>
    \o formattedContentOf(Val(message.content))

\* a separator and a section for each message from the k-th on that has one
RECURSIVE sectionsFrom(_, _)
sectionsFrom(messages, k) ==
  IF k > Len(messages) THEN <<>>
  ELSE (IF hasSection(messages[k]) THEN <<Separator>> \o sectionOf(messages[k]) ELSE <<>>)
         \o sectionsFrom(messages, k + 1)

\* C31: the output of conversationToMarkdown is the header followed, for
\* each user or assistant message with non-empty formatted content, in input
\* order, by the separator and one section; a summary or
\* file-history-snapshot message, a message without content and a message
\* whose blocks all format to nothing add nothing; for no messages the
\* output is the header alone.
C31_MarkdownSections ==
  markdown.output # Null =>
    LET messages == markdown.messages
        output == Val(markdown.output)
    IN  /\ output = <<Header>> \o sectionsFrom(messages, 1)
        /\ Cardinality({k \in 1..Len(output) : output[k] = Separator})
             = Cardinality({k \in 1..Len(messages) : hasSection(messages[k])})
        /\ \A k \in 1..Len(messages) :
             (\/ messages[k].type \in {"summary", "file-history-snapshot"}
              \/ noContent(messages[k])
              \/ allBlocksNothing(messages[k]))
               => ~hasSection(messages[k])
        /\ messages = <<>> => output = <<Header>>

\* a user message, an assistant message that holds only the result of a
\* tool that did not fail, and an assistant message that uses a tool were
\* exported: the output has the section of the first and of the third
C31_Witness ==
  /\ Len(markdown.messages) = 3
  /\ markdown.messages[2].type = "assistant"
  /\ allBlocksNothing(markdown.messages[2])
  /\ Val(markdown.messages[2].content).blocks # <<>>
  /\ markdown.output =
       Some(<<Header, Separator, "## ", "User", BlankLine, "Hi",
              Separator, "## ", "Assistant", BlankLine, "**[Tool: ", "Bash", "]**\n">>)

====
